---- MODULE Spec2Model ----
(***************************************************************************)
(* Escrow settlement engine of Aframp (src/src/lib.rs, EscrowContract).    *)
(* Every external call is one atomic step against the contract's storage.  *)
(* A call that returns an error, or that the host aborts (a failed         *)
(* require_auth, a token transfer that panics), commits nothing: its step  *)
(* leaves every variable as it was.  What a call returns is an operator of *)
(* the state and the call's inputs (<operation>_result), computed in the   *)
(* order of the code's checks; `last` records the call committed last.     *)
(*                                                                         *)
(* The AFRI token ledger (src/contract/contracts/stellar/src) is modelled  *)
(* beside it on its own storage: the AfrIContract entry points of lib.rs   *)
(* and the free functions of contract.rs, both over storage.rs.            *)
(*                                                                         *)
(* The Redis cache (src/src/cache/cache.rs) and the repositories that read *)
(* through it (src/src/database) are modelled over a key-value store of    *)
(* JSON texts and the tables they query.  Whether a cache call obtains a   *)
(* connection from the pool is an input of that call; a read names the     *)
(* type it deserializes to.  A statement the database rejects returns its  *)
(* error and writes nothing.                                               *)
(*                                                                         *)
(* PaystackProvider::make_request (src/src/payments/providers/paystack.rs) *)
(* is modelled one loop iteration per step: the request is sent, the       *)
(* server's answer (or the transport's error) is an input of the step, and *)
(* the iteration returns, or sleeps and goes round again.  The secret key  *)
(* and the base URL of the configuration are inputs of the call: a request *)
(* built from them that does not clone ends the call before any send.      *)
(*                                                                         *)
(* WebhookRepository (src/src/database/webhook_repository.rs) is modelled  *)
(* over the rows of webhook_events, one statement per step: its own        *)
(* methods and the insert, update and delete of its Repository trait.      *)
(*                                                                         *)
(* A call that awaits more than once (get_current_rate, upsert_rate,       *)
(* delete_pattern) is run by a task one await at a time: the cache read,   *)
(* the query, the cache write; the row write, the cache delete; KEYS, DEL. *)
(***************************************************************************)
EXTENDS Integers, Sequences, FiniteSets, TLC

\* ------------------------------------------------------------------ bounds
MaxOrders == 2
MaxTime == 2
MaxSupply == 2
MaxRows == 2
MaxCount == 2
MaxRetries == 2
MaxEvents == 2
MaxRetryCount == 6

\* --------------------------------------------------------------- constants
MAX_FEE_RATE == 1000
RETRY_LIMIT == 5
BPS_DENOMINATOR == 10000

\* ------------------------------------------------------------- input sets
Addresses == {"alice", "bob", "carol"}
Contract == "escrow"
Treasury == "treasury"
Resolver == "resolver"
None == "none"
Accounts == Addresses \cup {Contract, Treasury, Resolver}
Tokens == {"USDC"}
Amounts == {1000}
FeeRates == {50, 1000, 1500}
Outcomes == {"favor_buyer", "favor_seller"}
OrderIds == 1..MaxOrders
InitialBalance == [a \in Accounts |-> IF a \in Addresses THEN 2000 ELSE 0]

\* Currency pairs and rates, accounts and asset codes of the repositories, and the
\* keys under which they cache ("v1:rate:AFRI:USD", "v1:wallet:trustline:GA1").
Rates == {"0.85", "0.90"}
Pairs == {<<"AFRI", "USD">>, <<"AFRI", "NGN">>}
TlAccounts == {"GA1", "GA2"}
AssetCodes == {"AFRI", "USD"}
CurrencyPairKey(pair) == <<"v1", "rate", pair[1], pair[2]>>
Tasks == {"t1", "t2", "t3"}
TrustlineKey(account) == <<"v1", "wallet", "trustline", account>>
CounterKey == <<"test", "counter">>
CacheKeys ==
    {CurrencyPairKey(p) : p \in Pairs} \cup {TrustlineKey(a) : a \in TlAccounts} \cup {CounterKey}

VARIABLES
    instance,     \* instance storage: DataKey::{Admin, FeeRate, FeeTreasury, DisputeResolver, IsPaused, OrderCount}
    orders,       \* persistent storage: DataKey::Order(id) -> Order
    user_orders,  \* persistent storage: DataKey::UserOrders(address) -> Vec<u64>
    balances,     \* the token ledgers the contract calls: token -> account -> i128
    now,          \* env.ledger().timestamp()
    custody,      \* history: per order, what was transferred in at lock time minus what was paid out
    last,         \* the call committed last: operation, arguments, events published
    tok_admin,    \* AFRI ledger, instance storage ADMIN
    tok_bal,      \* AFRI ledger, instance storage BAL: Map<Address, i128>, read with unwrap_or(0)
    tok_last,     \* AFRI ledger, the call committed last: entry point and invoker
    redis,        \* the Redis store: val: key -> JSON text or None, ttl: key -> seconds left, -1 without expiry, -2 without key
    db_rates,     \* table exchange_rates, one row per pair: rate and id by (from_currency, to_currency); written_by: the operation that wrote the row last
    db_trustlines,\* table trustlines: id -> row
    tl_next,      \* the id the next inserted trustline row gets (row ids are fresh)
    repo_last,    \* the cache or repository call made last, with what it returned
    hooks,        \* table webhook_events: id -> row
    hook_next,    \* the id the next inserted webhook_events row gets (row ids are fresh)
    hook_last,    \* the WebhookRepository call made last, with what it returned
    tasks,        \* callers of the calls that await more than once: where each is in its call, what it holds
    pay           \* the make_request call in progress or finished last: the request built, loop position, answers received, result

escrow_vars == <<last, instance, orders, user_orders, balances, now, custody>>
ledger_vars == <<tok_last, tok_admin, tok_bal>>
cache_vars == <<repo_last, redis, db_rates, db_trustlines, tl_next>>
hook_vars == <<hooks, hook_next, hook_last>>
later_vars == <<pay, hook_vars, tasks>>
ext == <<ledger_vars, cache_vars, later_vars>>
vars == <<last, instance, orders, user_orders, balances, now, custody, ext>>

\* ---------------------------------------------------------------- storage
has(key) == key \in DOMAIN instance

\* instance().get(&DataKey::IsPaused).unwrap_or(false)
is_paused == IF has("IsPaused") THEN instance.IsPaused ELSE FALSE

\* instance().get(&DataKey::Admin).ok_or(Error::NotInitialized)
get_admin == IF has("Admin") THEN instance.Admin ELSE "NotInitialized"

Call(op, who, id, arg, events) ==
    [op |-> op, who |-> who, id |-> id, arg |-> arg, events |-> events]

\* Everything but the table of trustlines.
InitOther ==
    /\ instance = [k \in {} |-> 0]
    /\ orders = [i \in {} |-> 0]
    /\ user_orders = [a \in Addresses |-> <<>>]
    /\ balances = [t \in Tokens |-> InitialBalance]
    /\ now = 0
    /\ custody = [i \in {} |-> 0]
    /\ last = Call("deploy", None, 0, None, <<>>)
    /\ tok_admin = None
    /\ tok_bal = [a \in Addresses |-> 0]
    /\ tok_last = [op |-> "deploy", who |-> None]
    /\ redis = [val |-> [k \in CacheKeys |-> None], ttl |-> [k \in CacheKeys |-> 0 - 2]]
    /\ db_rates = [rate |-> [p \in Pairs |-> None], id |-> [p \in Pairs |-> None],
                   written_by |-> [p \in Pairs |-> None]]
    /\ repo_last = [op |-> "start", arg |-> <<>>, conn |-> <<>>, ret |-> None]
    /\ hooks = [i \in {} |-> 0]
    /\ hook_next = 1
    /\ hook_last = [op |-> "start", id |-> 0, ret |-> <<>>]
    /\ tasks = [t \in Tasks |-> [pc |-> "idle", op |-> None, pair |-> <<"AFRI", "USD">>,
                                  rate |-> None, ret |-> None, quiet |-> TRUE, conn |-> <<>>,
                                  prefix |-> <<>>, keys |-> {}]]
    /\ pay = [pc |-> "idle", max_retries |-> 0, request |-> "Ok", attempt |-> 0,
              answers |-> <<>>, slept |-> <<>>, last_error |-> FALSE, result |-> [ok |-> FALSE, value |-> [kind |-> "none"]]]

Init ==
    /\ InitOther
    /\ db_trustlines = [i \in {} |-> 0]
    /\ tl_next = 1

\* ------------------------------------------------------------- governance
\* Variant: the existence check is missing, so a second initialize goes through.
initialize_result_unguarded(fee_rate) ==
    IF fee_rate > MAX_FEE_RATE THEN "InvalidFeeRate" ELSE "Ok"

initialize_result(fee_rate) ==
    IF has("Admin") THEN "AlreadyInitialized"
    ELSE IF fee_rate > MAX_FEE_RATE THEN "InvalidFeeRate"
    ELSE "Ok"

initialize(admin, fee_rate, fee_treasury, dispute_resolver) ==
    IF initialize_result(fee_rate) # "Ok"
    THEN UNCHANGED vars
    ELSE /\ last' = Call("initialize", admin, 0, fee_rate, <<>>)
         /\ instance' = [Admin |-> admin, FeeRate |-> fee_rate, FeeTreasury |-> fee_treasury,
                         DisputeResolver |-> dispute_resolver, IsPaused |-> FALSE, OrderCount |-> 0]
         /\ UNCHANGED <<ext, orders, user_orders, balances, now, custody>>

\* Variant: the pause flag gates the admin calls as it gates the order calls.
require_admin_gated_by_pause(caller) ==
    IF ~has("Admin") THEN "NotInitialized"
    ELSE IF caller # instance.Admin THEN "AuthFailed"
    ELSE IF is_paused THEN "ContractPaused"
    ELSE "Ok"

\* The admin calls: read the admin (NotInitialized without one), then
\* admin.require_auth(), which aborts the call unless `caller` is the admin.
require_admin(caller) ==
    IF ~has("Admin") THEN "NotInitialized"
    ELSE IF caller # instance.Admin THEN "AuthFailed"
    ELSE "Ok"

\* Variant: set_fee_rate does not re-validate the bound.
set_fee_rate_result_unbounded(caller, new_fee_rate) ==
    require_admin(caller)

\* Variant: the bound itself is refused.
set_fee_rate_result_strict(caller, new_fee_rate) ==
    IF require_admin(caller) # "Ok" THEN require_admin(caller)
    ELSE IF new_fee_rate >= MAX_FEE_RATE THEN "InvalidFeeRate"
    ELSE "Ok"

set_fee_rate_result(caller, new_fee_rate) ==
    IF require_admin(caller) # "Ok" THEN require_admin(caller)
    ELSE IF new_fee_rate > MAX_FEE_RATE THEN "InvalidFeeRate"
    ELSE "Ok"

Set(op, caller, arg, result, key, value) ==
    IF result # "Ok"
    THEN UNCHANGED vars
    ELSE /\ last' = Call(op, caller, 0, arg, <<>>)
         /\ instance' = [instance EXCEPT ![key] = value]
         /\ UNCHANGED <<ext, orders, user_orders, balances, now, custody>>

\* Variant: the admin key is written back with the admin it already holds.
set_admin_keeps_admin(caller, new_admin) ==
    Set("set_admin", caller, new_admin, require_admin(caller), "Admin", instance.Admin)

set_admin(caller, new_admin) ==
    Set("set_admin", caller, new_admin, require_admin(caller), "Admin", new_admin)

set_fee_rate(caller, new_fee_rate) ==
    Set("set_fee_rate", caller, new_fee_rate, set_fee_rate_result(caller, new_fee_rate),
        "FeeRate", new_fee_rate)

set_fee_treasury(caller, new_treasury) ==
    Set("set_fee_treasury", caller, new_treasury, require_admin(caller), "FeeTreasury", new_treasury)

set_dispute_resolver(caller, new_resolver) ==
    Set("set_dispute_resolver", caller, new_resolver, require_admin(caller),
        "DisputeResolver", new_resolver)

\* Variant: pause flips the flag instead of setting it.
pause_toggles(caller) ==
    Set("pause", caller, None, require_admin(caller), "IsPaused", ~is_paused)

pause(caller) ==
    Set("pause", caller, None, require_admin(caller), "IsPaused", TRUE)

unpause(caller) ==
    Set("unpause", caller, None, require_admin(caller), "IsPaused", FALSE)

\* ------------------------------------------------------------------ orders
Order(id, seller, token, amount, created_at, expires_at) ==
    [id |-> id, seller |-> seller, buyer |-> None, token |-> token, amount |-> amount,
     fiat_currency |-> "USD", fiat_amount |-> amount \div 10, rate |-> 10,
     status |-> "Open", created_at |-> created_at, expires_at |-> expires_at,
     payment_method |-> "Bank Transfer"]

\* The token contract's transfer: it panics on a non-positive amount, without the
\* authorisation of `from`, and on an insufficient balance; otherwise it moves
\* `amount` from `from` to `to`.
transfer_panics(bal, from, amount, authorised) ==
    amount <= 0 \/ ~authorised \/ bal[from] < amount

\* Both balances are read before either is written.
transfer(bal, from, to, amount) ==
    LET from_bal == bal[from]
        to_bal == bal[to]
    IN [[bal EXCEPT ![from] = from_bal - amount] EXCEPT ![to] = to_bal + amount]

\* Variant: the status is not checked.
validate_order_acceptance_any_status(order, buyer) ==
    IF now > order.expires_at THEN "OrderExpired"
    ELSE IF buyer = order.seller THEN "CannotAcceptOwnOrder"
    ELSE "Ok"

\* Variant: the deadline is checked before the status.
validate_order_acceptance_expiry_first(order, buyer) ==
    IF now > order.expires_at THEN "OrderExpired"
    ELSE IF order.status # "Open" THEN "InvalidOrderStatus"
    ELSE IF buyer = order.seller THEN "CannotAcceptOwnOrder"
    ELSE "Ok"

\* Variant: the deadline is not checked.
validate_order_acceptance_no_expiry(order, buyer) ==
    IF order.status # "Open" THEN "InvalidOrderStatus"
    ELSE IF buyer = order.seller THEN "CannotAcceptOwnOrder"
    ELSE "Ok"

\* Variant: a seller may accept the seller's own order.
validate_order_acceptance_own_allowed(order, buyer) ==
    IF order.status # "Open" THEN "InvalidOrderStatus"
    ELSE IF now > order.expires_at THEN "OrderExpired"
    ELSE "Ok"

\* Variant: the buyer is compared with the seller before the status and the deadline.
validate_order_acceptance_own_first(order, buyer) ==
    IF buyer = order.seller THEN "CannotAcceptOwnOrder"
    ELSE IF order.status # "Open" THEN "InvalidOrderStatus"
    ELSE IF now > order.expires_at THEN "OrderExpired"
    ELSE "Ok"

\* Variant: an order is expired from its deadline on.
validate_order_acceptance_deadline_excluded(order, buyer) ==
    IF order.status # "Open" THEN "InvalidOrderStatus"
    ELSE IF now >= order.expires_at THEN "OrderExpired"
    ELSE IF buyer = order.seller THEN "CannotAcceptOwnOrder"
    ELSE "Ok"

validate_order_acceptance(order, buyer) ==
    IF order.status # "Open" THEN "InvalidOrderStatus"
    ELSE IF now > order.expires_at THEN "OrderExpired"
    ELSE IF buyer = order.seller THEN "CannotAcceptOwnOrder"
    ELSE "Ok"

\* Variant: one unit less than the order's amount is pulled.
lock_escrow_funds_short(order) ==
    [balances EXCEPT ![order.token] = transfer(balances[order.token], order.seller, Contract, order.amount - 1)]

\* Variant: the order is marked Locked without the transfer being made.
lock_escrow_funds_skipped(order) == balances

\* token_client.transfer(&order.seller, &env.current_contract_address(), &order.amount)
lock_escrow_funds(order) ==
    [balances EXCEPT ![order.token] = transfer(balances[order.token], order.seller, Contract, order.amount)]

\* Variant: the stored list is replaced by the new id instead of extended by it.
update_user_orders_replaces(user, order_id) ==
    [user_orders EXCEPT ![user] = <<order_id>>]

update_user_orders(user, order_id) ==
    [user_orders EXCEPT ![user] = Append(user_orders[user], order_id)]

\* Variant: the outcome of the transfer is ignored.
accept_order_result_ignores_transfer(order_id, buyer, buyer_authorised, seller_authorised) ==
    IF ~buyer_authorised THEN "AuthFailed"
    ELSE IF is_paused THEN "ContractPaused"
    ELSE IF order_id \notin DOMAIN orders THEN "OrderNotFound"
    ELSE validate_order_acceptance(orders[order_id], buyer)

\* Variant: the order is looked up before the pause flag is read.
accept_order_result_pause_after_lookup(order_id, buyer, buyer_authorised, seller_authorised) ==
    IF ~buyer_authorised THEN "AuthFailed"
    ELSE IF order_id \notin DOMAIN orders THEN "OrderNotFound"
    ELSE IF is_paused THEN "ContractPaused"
    ELSE LET order == orders[order_id]
         IN IF validate_order_acceptance(order, buyer) # "Ok"
            THEN validate_order_acceptance(order, buyer)
            ELSE IF transfer_panics(balances[order.token], order.seller, order.amount, seller_authorised)
            THEN "TransferRejected"
            ELSE "Ok"

\* buyer_authorised: whether buyer.require_auth() passes; seller_authorised: whether
\* the token contract finds the seller's authorisation for the transfer.
accept_order_result(order_id, buyer, buyer_authorised, seller_authorised) ==
    IF ~buyer_authorised THEN "AuthFailed"
    ELSE IF is_paused THEN "ContractPaused"
    ELSE IF order_id \notin DOMAIN orders THEN "OrderNotFound"
    ELSE LET order == orders[order_id]
         IN IF validate_order_acceptance(order, buyer) # "Ok"
            THEN validate_order_acceptance(order, buyer)
            ELSE IF transfer_panics(balances[order.token], order.seller, order.amount, seller_authorised)
            THEN "TransferRejected"
            ELSE "Ok"

\* Variant: the order is locked and funded but the buyer is not written into it.
accept_order_buyer_unrecorded(order_id, buyer, buyer_authorised, seller_authorised) ==
    IF accept_order_result(order_id, buyer, buyer_authorised, seller_authorised) # "Ok"
    THEN UNCHANGED vars
    ELSE LET order == orders[order_id]
         IN /\ last' = Call("accept_order", buyer, order_id, None,
                            <<<<"order_accepted", order_id, buyer, order.amount>>>>)
            /\ balances' = lock_escrow_funds(order)
            /\ orders' = [orders EXCEPT ![order_id] = [order EXCEPT !.status = "Locked"]]
            /\ user_orders' = update_user_orders(buyer, order_id)
            /\ custody' = [custody EXCEPT ![order_id] = @ + order.amount]
            /\ UNCHANGED <<ext, instance, now>>

\* Variant: the accepted order is restamped with the time of the accept.
accept_order_restamps(order_id, buyer, buyer_authorised, seller_authorised) ==
    IF accept_order_result(order_id, buyer, buyer_authorised, seller_authorised) # "Ok"
    THEN UNCHANGED vars
    ELSE LET order == orders[order_id]
         IN /\ last' = Call("accept_order", buyer, order_id, None,
                            <<<<"order_accepted", order_id, buyer, order.amount>>>>)
            /\ balances' = lock_escrow_funds(order)
            /\ orders' = [orders EXCEPT ![order_id] =
                             [order EXCEPT !.buyer = buyer, !.status = "Locked", !.created_at = now]]
            /\ user_orders' = update_user_orders(buyer, order_id)
            /\ custody' = [custody EXCEPT ![order_id] = @ + order.amount]
            /\ UNCHANGED <<ext, instance, now>>

accept_order(order_id, buyer, buyer_authorised, seller_authorised) ==
    IF accept_order_result(order_id, buyer, buyer_authorised, seller_authorised) # "Ok"
    THEN UNCHANGED vars
    ELSE LET order == orders[order_id]
         IN /\ last' = Call("accept_order", buyer, order_id, None,
                            <<<<"order_accepted", order_id, buyer, order.amount>>>>)
            /\ balances' = lock_escrow_funds(order)
            /\ orders' = [orders EXCEPT ![order_id] = [order EXCEPT !.buyer = buyer, !.status = "Locked"]]
            /\ user_orders' = update_user_orders(buyer, order_id)
            /\ custody' = [custody EXCEPT ![order_id] = @ + order.amount]
            /\ UNCHANGED <<ext, instance, now>>

\* ------------------------------------------------- the rest of the lifecycle
\* The operations below are not in the contract's source; they follow the
\* specification's transition table (4.1), settlement rules (4.2) and dispute
\* rules (4.4), and are enabled exactly when the specification lets them succeed.
Committed(op, who, id, arg, kind) ==
    last' = Call(op, who, id, arg, <<<<kind, id, who, orders[id].amount>>>>)

\* Both legs of a release, or the refund, leave the contract: amount in all.
PaidOut(id) ==
    custody' = [custody EXCEPT ![id] = @ - orders[id].amount]

SetStatus(id, status) ==
    orders' = [orders EXCEPT ![id].status = status]

\* Variant: the id is issued but the counter is not advanced.
create_order_counter_kept(seller, token, amount, ttl) ==
    /\ has("OrderCount")
    /\ ~is_paused
    /\ instance.OrderCount < MaxOrders
    /\ LET id == instance.OrderCount + 1
       IN /\ orders' = [i \in DOMAIN orders \cup {id} |->
                          IF i = id THEN Order(id, seller, token, amount, now, now + ttl) ELSE orders[i]]
          /\ custody' = [i \in DOMAIN orders \cup {id} |-> IF i = id THEN 0 ELSE custody[i]]
          /\ last' = Call("create_order", seller, id, None, <<>>)
    /\ UNCHANGED <<ext, instance, user_orders, balances, now>>

create_order(seller, token, amount, ttl) ==
    /\ has("OrderCount")
    /\ ~is_paused
    /\ instance.OrderCount < MaxOrders
    /\ LET id == instance.OrderCount + 1
       IN /\ instance' = [instance EXCEPT !.OrderCount = id]
          /\ orders' = [i \in DOMAIN orders \cup {id} |->
                          IF i = id THEN Order(id, seller, token, amount, now, now + ttl) ELSE orders[i]]
          /\ custody' = [i \in DOMAIN orders \cup {id} |-> IF i = id THEN 0 ELSE custody[i]]
          /\ last' = Call("create_order", seller, id, None, <<>>)
    /\ UNCHANGED <<ext, user_orders, balances, now>>

confirm_payment_sent(order_id, caller) ==
    /\ ~is_paused
    /\ order_id \in DOMAIN orders
    /\ caller = orders[order_id].buyer
    /\ orders[order_id].status = "Locked"
    /\ SetStatus(order_id, "PaymentSent")
    /\ Committed("confirm_payment_sent", caller, order_id, None, "payment_sent")
    /\ UNCHANGED <<ext, instance, user_orders, balances, now, custody>>

\* Variant: the quotient is rounded up.
fee_of_rounded_up(amount, fee_rate) ==
    (amount * fee_rate + BPS_DENOMINATOR - 1) \div BPS_DENOMINATOR

fee_of(amount, fee_rate) == (amount * fee_rate) \div BPS_DENOMINATOR

\* The split release: amount - fee to the buyer, fee to the treasury.
disburse(order) ==
    LET fee == fee_of(order.amount, instance.FeeRate)
        bal == balances[order.token]
        paid == transfer(bal, Contract, order.buyer, order.amount - fee)
    IN [balances EXCEPT ![order.token] =
           IF fee > 0 THEN transfer(paid, Contract, instance.FeeTreasury, fee) ELSE paid]

\* The refund: the whole amount back to the seller, no fee.
\* Variant: the refund is taxed like a release.
refund_less_fee(order) ==
    LET fee == fee_of(order.amount, instance.FeeRate)
        bal == balances[order.token]
        paid == transfer(bal, Contract, order.seller, order.amount - fee)
    IN [balances EXCEPT ![order.token] =
           IF fee > 0 THEN transfer(paid, Contract, instance.FeeTreasury, fee) ELSE paid]

refund(order) ==
    [balances EXCEPT ![order.token] = transfer(balances[order.token], Contract, order.seller, order.amount)]

release(order_id, caller) ==
    /\ ~is_paused
    /\ order_id \in DOMAIN orders
    /\ caller = orders[order_id].seller
    /\ orders[order_id].status = "PaymentSent"
    /\ balances' = disburse(orders[order_id])
    /\ PaidOut(order_id)
    /\ SetStatus(order_id, "Completed")
    /\ Committed("release", caller, order_id, None, "released")
    /\ UNCHANGED <<ext, instance, user_orders, now>>

raise_dispute(order_id, caller) ==
    /\ ~is_paused
    /\ order_id \in DOMAIN orders
    /\ caller \in {orders[order_id].buyer, orders[order_id].seller}
    /\ orders[order_id].status \in {"Locked", "PaymentSent"}
    /\ SetStatus(order_id, "Disputed")
    /\ Committed("raise_dispute", caller, order_id, None, "disputed")
    /\ UNCHANGED <<ext, instance, user_orders, balances, now, custody>>

resolve(order_id, caller, outcome) ==
    /\ ~is_paused
    /\ order_id \in DOMAIN orders
    /\ caller = instance.DisputeResolver
    /\ orders[order_id].status = "Disputed"
    /\ IF outcome = "favor_buyer"
       THEN balances' = disburse(orders[order_id]) /\ SetStatus(order_id, "Completed")
       ELSE balances' = refund(orders[order_id]) /\ SetStatus(order_id, "Cancelled")
    /\ PaidOut(order_id)
    /\ Committed("resolve", caller, order_id, outcome, "resolved")
    /\ UNCHANGED <<ext, instance, user_orders, now>>

\* Variant: the seller may cancel whatever the status.
cancel_any_status(order_id, caller) ==
    /\ ~is_paused
    /\ order_id \in DOMAIN orders
    /\ caller = orders[order_id].seller
    /\ orders[order_id].status \notin {"Completed", "Cancelled"}
    /\ SetStatus(order_id, "Cancelled")
    /\ Committed("cancel", caller, order_id, None, "cancelled")
    /\ UNCHANGED <<ext, instance, user_orders, balances, now, custody>>

cancel(order_id, caller) ==
    /\ ~is_paused
    /\ order_id \in DOMAIN orders
    /\ caller = orders[order_id].seller
    /\ orders[order_id].status = "Open"
    /\ SetStatus(order_id, "Cancelled")
    /\ Committed("cancel", caller, order_id, None, "cancelled")
    /\ UNCHANGED <<ext, instance, user_orders, balances, now, custody>>

\* Expiry: an Open order past its deadline, with no buyer, is cancelled.
expire(order_id) ==
    /\ order_id \in DOMAIN orders
    /\ orders[order_id].status = "Open"
    /\ now > orders[order_id].expires_at
    /\ SetStatus(order_id, "Cancelled")
    /\ Committed("expire", None, order_id, None, "cancelled")
    /\ UNCHANGED <<ext, instance, user_orders, balances, now, custody>>

\* The ledger closes: the timestamp advances.
Tick ==
    /\ now < MaxTime
    /\ now' = now + 1
    /\ last' = Call("tick", None, 0, None, <<>>)
    /\ UNCHANGED <<ext, instance, orders, user_orders, balances, custody>>

\* -------------------------------------------------------- AFRI token ledger
\* storage.rs: get_admin unwraps the stored admin, get_balance reads the map with
\* unwrap_or(0), set_balance writes one entry of the map.
LedgerAmounts == {0 - 1, 0, 1, 2}
get_balance(user) == tok_bal[user]
set_balance(bal, user, amount) == [bal EXCEPT ![user] = amount]

\* The model keeps every balance within -1..MaxSupply.
InLedgerRange(bal) == \A a \in Addresses : bal[a] \in (0 - 1)..MaxSupply

LedgerCall(op, invoker) == [op |-> op, who |-> invoker]

\* A committed ledger call: the balances it writes and the call it records.
LedgerCommit(op, invoker, admin, bal) ==
    /\ InLedgerRange(bal)
    /\ tok_last' = LedgerCall(op, invoker)
    /\ tok_admin' = admin
    /\ tok_bal' = bal
    /\ UNCHANGED <<escrow_vars, cache_vars, later_vars>>

\* AfrIContract::init: stores the admin, whoever invokes it and however often.
init(invoker, admin) ==
    /\ tok_last' = LedgerCall("AfrIContract::init", invoker)
    /\ tok_admin' = admin
    /\ UNCHANGED <<tok_bal, escrow_vars, cache_vars, later_vars>>

\* AfrIContract::mint: `caller` is an argument of the call, compared with the
\* stored admin; the invoker's authorisation is not required.
AfrIContract_mint_result(invoker, caller) ==
    IF tok_admin = None THEN "NoAdmin"
    ELSE IF caller # tok_admin THEN "OnlyAdminCanMint"
    ELSE "Ok"

AfrIContract_mint(invoker, caller, to, amount) ==
    IF AfrIContract_mint_result(invoker, caller) # "Ok"
    THEN UNCHANGED vars
    ELSE LedgerCommit("AfrIContract::mint", invoker, tok_admin,
                      set_balance(tok_bal, to, get_balance(to) + amount))

AfrIContract_burn_result(from, amount) ==
    IF amount > get_balance(from) THEN "InsufficientBalance" ELSE "Ok"

AfrIContract_burn(invoker, from, amount) ==
    IF AfrIContract_burn_result(from, amount) # "Ok"
    THEN UNCHANGED vars
    ELSE LedgerCommit("AfrIContract::burn", invoker, tok_admin,
                      set_balance(tok_bal, from, get_balance(from) - amount))

\* Variant: the balance is not compared with the amount.
AfrIContract_transfer_result_unchecked(from, amount) == "Ok"

AfrIContract_transfer_result(from, amount) ==
    IF amount > get_balance(from) THEN "InsufficientBalance" ELSE "Ok"

\* The debit is written first and the balance of `to` is read after it.
AfrIContract_transfer_balances(from, to, amount) ==
    LET debited == set_balance(tok_bal, from, get_balance(from) - amount)
    IN set_balance(debited, to, debited[to] + amount)

AfrIContract_transfer(invoker, from, to, amount) ==
    IF AfrIContract_transfer_result(from, amount) # "Ok"
    THEN UNCHANGED vars
    ELSE LedgerCommit("AfrIContract::transfer", invoker, tok_admin,
                      AfrIContract_transfer_balances(from, to, amount))

\* AfrIContract::balance
balance(user) == get_balance(user)

\* contract.rs: the amount is checked first, then the authorisation (of the admin
\* for mint and burn, of `from` for transfer), then the balance.
contract_mint_result(invoker, amount) ==
    IF amount <= 0 THEN "InvalidAmount"
    ELSE IF tok_admin = None THEN "NoAdmin"
    ELSE IF invoker # tok_admin THEN "AuthFailed"
    ELSE "Ok"

contract_mint(invoker, to, amount) ==
    IF contract_mint_result(invoker, amount) # "Ok"
    THEN UNCHANGED vars
    ELSE LedgerCommit("contract::mint", invoker, tok_admin,
                      set_balance(tok_bal, to, get_balance(to) + amount))

contract_burn_result(invoker, from, amount) ==
    IF amount <= 0 THEN "InvalidAmount"
    ELSE IF tok_admin = None THEN "NoAdmin"
    ELSE IF invoker # tok_admin THEN "AuthFailed"
    ELSE IF get_balance(from) < amount THEN "InsufficientBalance"
    ELSE "Ok"

contract_burn(invoker, from, amount) ==
    IF contract_burn_result(invoker, from, amount) # "Ok"
    THEN UNCHANGED vars
    ELSE LedgerCommit("contract::burn", invoker, tok_admin,
                      set_balance(tok_bal, from, get_balance(from) - amount))

contract_transfer_result(invoker, from, amount) ==
    IF amount <= 0 THEN "InvalidAmount"
    ELSE IF invoker # from THEN "AuthFailed"
    ELSE IF get_balance(from) < amount THEN "InsufficientBalance"
    ELSE "Ok"

contract_transfer(invoker, from, to, amount) ==
    IF contract_transfer_result(invoker, from, amount) # "Ok"
    THEN UNCHANGED vars
    ELSE LedgerCommit("contract::transfer", invoker, tok_admin,
                      transfer(tok_bal, from, to, amount))

\* --------------------------------------------------------------- Redis cache
\* CacheResult<T>
Ok(v) == [ok |-> TRUE, value |-> v]
Err(e) == [ok |-> FALSE, value |-> e]
Unit == "()"
NoTtl == 0 - 1

\* Option<T> of what a read returns
Some(v) == <<v>>
Nothing == <<>>

\* The call does not return: an unwrap panics and the calling task unwinds.
Panic == [ok |-> FALSE, value |-> "PANIC"]
Panicked == "PANIC"

\* ttl::EXCHANGE_RATES and ttl::TRUSTLINES, in seconds
EXCHANGE_RATES == 90
TRUSTLINES == 3600

\* Decimal strings of the counters the model reaches, and their parsing.
NumStrs == <<"-1", "0", "1", "2", "3", "4">>
StrOf(n) == NumStrs[n + 2]
IsNum(str) == \E i \in 1..Len(NumStrs) : NumStrs[i] = str
IntOf(str) == (CHOOSE i \in 1..Len(NumStrs) : NumStrs[i] = str) - 2

\* serde_json::to_string of a value of type T: a String is written between
\* quotes, a bool as true or false, an i64 in decimal, an ExchangeRate (taken by
\* its rate) as an object.
Strings == {"0.85", "1"}
Quote(s) == "\"" \o s \o "\""
RateDoc(rate) == "{\"rate\":\"" \o rate \o "\"}"
to_string(T, v) ==
    CASE T = "String" -> Quote(v)
      [] T = "bool" -> IF v THEN "true" ELSE "false"
      [] T = "i64" -> StrOf(v)
      [] T = "ExchangeRate" -> RateDoc(v)

\* serde_json::from_str::<T> of a stored text: the value, or an error when the
\* text is of another type.
from_str(T, text) ==
    CASE T = "String" ->
            IF \E s \in Strings : Quote(s) = text
            THEN Ok(CHOOSE s \in Strings : Quote(s) = text)
            ELSE Err("SerializationError")
      [] T = "bool" ->
            IF text = "true" THEN Ok(TRUE)
            ELSE IF text = "false" THEN Ok(FALSE)
            ELSE Err("SerializationError")
      [] T = "i64" ->
            IF IsNum(text) THEN Ok(IntOf(text)) ELSE Err("SerializationError")
      [] T = "ExchangeRate" ->
            IF \E r \in Rates : RateDoc(r) = text
            THEN Ok(CHOOSE r \in Rates : RateDoc(r) = text)
            ELSE Err("SerializationError")

\* The store with `key` holding `value` under `ttl`, and with `keys` removed.
stored(store, key, value, ttl) ==
    [val |-> [store.val EXCEPT ![key] = value], ttl |-> [store.ttl EXCEPT ![key] = ttl]]
removed(store, keys) ==
    [val |-> [k \in CacheKeys |-> IF k \in keys THEN None ELSE store.val[k]],
     ttl |-> [k \in CacheKeys |-> IF k \in keys THEN 0 - 2 ELSE store.ttl[k]]]

\* Each operation first asks the pool for a connection; `conn` tells whether it
\* got one.  Without one it returns its neutral value and touches nothing.
\* Variant: GET is answered from the store whether or not a connection was obtained.
cache_get_result_ignores_connection(key, T, conn) ==
    IF redis.val[key] = None THEN Ok(Nothing)
    ELSE IF from_str(T, redis.val[key]).ok THEN Ok(Some(from_str(T, redis.val[key]).value))
    ELSE Panic

\* get::<T>: the stored text is deserialized as T and the result unwrapped, so a
\* text of another type panics.
cache_get_result(key, T, conn) ==
    IF ~conn THEN Ok(Nothing)
    ELSE IF redis.val[key] = None THEN Ok(Nothing)
    ELSE IF from_str(T, redis.val[key]).ok THEN Ok(Some(from_str(T, redis.val[key]).value))
    ELSE Panic

cache_set_result(key, T, value, ttl, conn) == Ok(Unit)
cache_set_store(key, T, value, ttl, conn) ==
    IF ~conn THEN redis ELSE stored(redis, key, to_string(T, value), ttl)

cache_delete_result(key, conn) ==
    IF ~conn THEN Ok(FALSE) ELSE Ok(redis.val[key] # None)
cache_delete_store(key, conn) ==
    IF ~conn THEN redis ELSE removed(redis, {key})

cache_exists_result(key, conn) ==
    IF ~conn THEN Ok(FALSE) ELSE Ok(redis.val[key] # None)

\* The pipeline sets the items in order.
RECURSIVE stored_all(_, _, _, _)
stored_all(store, items, T, ttl) ==
    IF items = <<>> THEN store
    ELSE stored_all(stored(store, Head(items)[1], to_string(T, Head(items)[2]), ttl),
                    Tail(items), T, ttl)

cache_set_multiple_result(items, T, ttl, conn) == Ok(Unit)
cache_set_multiple_store(items, T, ttl, conn) ==
    IF items = <<>> \/ ~conn THEN redis ELSE stored_all(redis, items, T, ttl)

\* get_multiple::<T>: a key that is absent, or whose text is of another type,
\* gives None.  conn.get of one key is a GET and not an MGET: the nil Redis
\* answers for an absent key is read as no results, and the text it answers
\* for a present key as one result.
cache_get_multiple_result(keys, T, conn) ==
    IF keys = <<>> THEN Ok(<<>>)
    ELSE IF ~conn THEN Ok([i \in 1..Len(keys) |-> Nothing])
    ELSE IF Len(keys) = 1 /\ redis.val[keys[1]] = None THEN Ok(<<>>)
    ELSE Ok([i \in 1..Len(keys) |->
                IF redis.val[keys[i]] = None THEN Nothing
                ELSE IF from_str(T, redis.val[keys[i]]).ok
                THEN Some(from_str(T, redis.val[keys[i]]).value)
                ELSE Nothing])

\* INCRBY: a missing key counts from 0, a value that is no integer is an error.
cache_increment_result(key, amount, conn) ==
    IF ~conn THEN Ok(0)
    ELSE IF redis.val[key] = None THEN Ok(amount)
    ELSE IF IsNum(redis.val[key]) THEN Ok(IntOf(redis.val[key]) + amount)
    ELSE Err("RedisError")
cache_increment_store(key, amount, conn) ==
    LET r == cache_increment_result(key, amount, conn)
    IN IF ~conn \/ ~r.ok THEN redis
       ELSE stored(redis, key, StrOf(r.value), IF redis.val[key] = None THEN NoTtl ELSE redis.ttl[key])

cache_decrement_result(key, amount, conn) ==
    IF ~conn THEN Ok(0)
    ELSE IF redis.val[key] = None THEN Ok(0 - amount)
    ELSE IF IsNum(redis.val[key]) THEN Ok(IntOf(redis.val[key]) - amount)
    ELSE Err("RedisError")
cache_decrement_store(key, amount, conn) ==
    LET r == cache_decrement_result(key, amount, conn)
    IN IF ~conn \/ ~r.ok THEN redis
       ELSE stored(redis, key, StrOf(r.value), IF redis.val[key] = None THEN NoTtl ELSE redis.ttl[key])

\* `exceeds` tells whether the duration is more than i64::MAX seconds; that is
\* checked after the connection.
cache_expire_result(key, ttl, exceeds, conn) ==
    IF ~conn THEN Ok(FALSE)
    ELSE IF exceeds THEN Err("TtlError")
    ELSE Ok(redis.val[key] # None)
cache_expire_store(key, ttl, exceeds, conn) ==
    IF ~conn \/ exceeds \/ redis.val[key] = None THEN redis
    ELSE stored(redis, key, redis.val[key], ttl)

\* TTL key: the seconds the key has left, -1 for a key without expiry, -2 for no key.
cache_ttl_result(key, conn) ==
    IF ~conn THEN Ok(0 - 2) ELSE Ok(redis.ttl[key])

\* KEYS pattern, for the patterns that end in "*": the keys that begin with `prefix`.
Matching(prefix) ==
    {k \in CacheKeys : /\ redis.val[k] # None
                       /\ Len(prefix) <= Len(k)
                       /\ \A i \in 1..Len(prefix) : k[i] = prefix[i]}

\* DEL keys: the number of them that were there, and the store without them.
cache_del_result(keys) == Cardinality({k \in keys : redis.val[k] # None})
cache_del_store(keys) == removed(redis, keys)

\* The record of a call.
RepoCall(op, arg, conn, ret) == [op |-> op, arg |-> arg, conn |-> conn, ret |-> ret]

\* A call on the cache alone: what it returns and the store it leaves.
CacheCall(op, arg, conn, result, store) ==
    /\ repo_last' = RepoCall(op, arg, <<conn>>, result)
    /\ redis' = store
    /\ UNCHANGED <<db_rates, db_trustlines, tl_next, escrow_vars, ledger_vars, later_vars>>

cache_get(key, T, conn) ==
    CacheCall("get", key, conn, cache_get_result(key, T, conn), redis)
cache_set(key, T, value, ttl, conn) ==
    CacheCall("set", key, conn, cache_set_result(key, T, value, ttl, conn),
              cache_set_store(key, T, value, ttl, conn))
cache_delete(key, conn) ==
    CacheCall("delete", key, conn, cache_delete_result(key, conn), cache_delete_store(key, conn))
cache_exists(key, conn) ==
    CacheCall("exists", key, conn, cache_exists_result(key, conn), redis)
cache_set_multiple(items, T, ttl, conn) ==
    CacheCall("set_multiple", items, conn, cache_set_multiple_result(items, T, ttl, conn),
              cache_set_multiple_store(items, T, ttl, conn))
cache_get_multiple(keys, T, conn) ==
    CacheCall("get_multiple", keys, conn, cache_get_multiple_result(keys, T, conn), redis)
cache_increment(key, amount, conn) ==
    /\ LET r == cache_increment_result(key, amount, conn)
       IN r.ok => r.value \in (0 - 1)..MaxCount
    /\ CacheCall("increment", key, conn, cache_increment_result(key, amount, conn),
                 cache_increment_store(key, amount, conn))
cache_decrement(key, amount, conn) ==
    /\ LET r == cache_decrement_result(key, amount, conn)
       IN r.ok => r.value \in (0 - 1)..MaxCount
    /\ CacheCall("decrement", key, conn, cache_decrement_result(key, amount, conn),
                 cache_decrement_store(key, amount, conn))
cache_expire(key, ttl, exceeds, conn) ==
    CacheCall("expire", key, conn, cache_expire_result(key, ttl, exceeds, conn),
              cache_expire_store(key, ttl, exceeds, conn))
cache_ttl(key, conn) ==
    CacheCall("ttl", key, conn, cache_ttl_result(key, conn), redis)

\* Redis's clock moves on by `seconds`: the time to live of every key that has
\* one counts down, and a key whose time has run out is dropped.
Elapse(seconds) ==
    /\ \E k \in CacheKeys : redis.ttl[k] > 0
    /\ redis' = [val |-> [k \in CacheKeys |->
                             IF redis.ttl[k] > 0 /\ redis.ttl[k] <= seconds THEN None
                             ELSE redis.val[k]],
                 ttl |-> [k \in CacheKeys |->
                             IF redis.ttl[k] > seconds THEN redis.ttl[k] - seconds
                             ELSE IF redis.ttl[k] > 0 THEN 0 - 2
                             ELSE redis.ttl[k]]]
    /\ UNCHANGED <<repo_last, db_rates, db_trustlines, tl_next, escrow_vars, ledger_vars, later_vars>>

\* --------------------------------------------------------------------- tasks
\* A call that awaits more than once is run by a task, one await per step;
\* between two steps of a call every other call may run.  A task that is idle
\* keeps the call it ran last: `op`, the connections its cache calls obtained
\* (`conn`) and what it returned (`ret`).  `quiet` records, for a
\* get_current_rate, that no upsert_rate on the pair was under way when it
\* started and that the pair's row was not written while it ran.
Idle == [pc |-> "idle", op |-> None, pair |-> <<"AFRI", "USD">>, rate |-> None, ret |-> None,
         quiet |-> TRUE, conn |-> <<>>, prefix |-> <<>>, keys |-> {}]

\* delete_pattern, first await: without a connection Ok(0); with one, KEYS
\* pattern, and Ok(0) when no key matches.
delete_pattern_keys(t, prefix, conn) ==
    /\ tasks[t].pc = "idle"
    /\ IF ~conn \/ Matching(prefix) = {}
       THEN /\ repo_last' = RepoCall("delete_pattern", prefix, <<conn>>, Ok(0))
            /\ UNCHANGED tasks
       ELSE /\ tasks' = [tasks EXCEPT ![t] =
                           [Idle EXCEPT !.pc = "delete_pattern_del", !.op = "delete_pattern",
                                        !.prefix = prefix, !.keys = Matching(prefix)]]
            /\ UNCHANGED repo_last
    /\ UNCHANGED <<redis, db_rates, db_trustlines, tl_next, escrow_vars, ledger_vars, pay, hook_vars>>

\* delete_pattern, second await: DEL of the keys that KEYS listed; the call
\* returns the number DEL removed.
delete_pattern_del(t) ==
    /\ tasks[t].pc = "delete_pattern_del"
    /\ repo_last' = RepoCall("delete_pattern", tasks[t].prefix, <<TRUE>>, Ok(cache_del_result(tasks[t].keys)))
    /\ redis' = cache_del_store(tasks[t].keys)
    /\ tasks' = [tasks EXCEPT ![t] = Idle]
    /\ UNCHANGED <<db_rates, db_trustlines, tl_next, escrow_vars, ledger_vars, pay, hook_vars>>

\* ------------------------------------------------- exchange rate repository
\* Ids of the rows of exchange_rates.  The table has one row per id and, as the
\* ON CONFLICT (from_currency, to_currency) of upsert_rate requires, one row per
\* currency pair.
RateIds == {"e1", "e2"}

RateIdsInUse == {db_rates.id[p] : p \in Pairs} \ {None}

\* The table with the row of `pair` set to (id, rate), and with the row of
\* `pair` removed, by upsert_rate or by a call of the Repository trait (`op`).
rate_written(table, pair, id, rate, op) ==
    [rate |-> [table.rate EXCEPT ![pair] = rate],
     id |-> [table.id EXCEPT ![pair] = id],
     written_by |-> [table.written_by EXCEPT ![pair] = op]]
rate_removed(table, pair, op) == rate_written(table, pair, None, None, op)

\* SELECT ... WHERE from_currency = $1 AND to_currency = $2 ... LIMIT 1
query_current_rate(pair) == db_rates.rate[pair]

\* get_current_rate run without another call between its awaits: the cached
\* rate on a hit, the stored rate otherwise; a cached text that is no
\* ExchangeRate panics in Cache::get.
get_current_rate_result(pair, conn_get) ==
    LET cached == cache_get_result(CurrencyPairKey(pair), "ExchangeRate", conn_get)
    IN IF ~cached.ok THEN Panicked
       ELSE IF cached.value # Nothing THEN cached.value[1]
       ELSE query_current_rate(pair)

\* On a miss a rate found in the table is cached under ttl::EXCHANGE_RATES.
get_current_rate_store(pair, conn_get, conn_set) ==
    LET cached == cache_get_result(CurrencyPairKey(pair), "ExchangeRate", conn_get)
    IN IF ~cached.ok THEN redis
       ELSE IF cached.value # Nothing THEN redis
       ELSE IF query_current_rate(pair) = None THEN redis
       ELSE cache_set_store(CurrencyPairKey(pair), "ExchangeRate", query_current_rate(pair),
                            EXCHANGE_RATES, conn_set)

\* Variant: the cached rate is left in place.
upsert_rate_store_kept(pair, conn) == redis

\* upsert_rate deletes the pair's key after the row is written.
upsert_rate_store(pair, conn) == cache_delete_store(CurrencyPairKey(pair), conn)

Upserting(pair) == \E u \in Tasks : tasks[u].pc = "upsert_invalidate" /\ tasks[u].pair = pair

\* The tasks after the rows of `pairs` were written: a get_current_rate under
\* way on one of them is no longer quiet.
disturbed(pairs) ==
    [u \in Tasks |->
        IF tasks[u].pc \in {"get_cache", "get_query", "get_fill"} /\ tasks[u].pair \in pairs
        THEN [tasks[u] EXCEPT !.quiet = FALSE]
        ELSE tasks[u]]

\* get_current_rate is called.
get_start(t, pair) ==
    /\ tasks[t].pc = "idle"
    /\ tasks' = [tasks EXCEPT ![t] = [Idle EXCEPT !.pc = "get_cache", !.op = "get_current_rate",
                                                  !.pair = pair, !.quiet = ~Upserting(pair)]]
    /\ UNCHANGED <<escrow_vars, ledger_vars, cache_vars, pay, hook_vars>>

\* cache.get(&cache_key): a hit returns the cached rate, a miss goes on to the
\* query, a text that is no ExchangeRate panics.
get_cache(t, conn) ==
    /\ tasks[t].pc = "get_cache"
    /\ LET pair == tasks[t].pair
           cached == cache_get_result(CurrencyPairKey(pair), "ExchangeRate", conn)
       IN IF ~cached.ok
          THEN tasks' = [tasks EXCEPT ![t] = [@ EXCEPT !.pc = "idle", !.ret = Panicked, !.conn = <<conn>>]]
          ELSE IF cached.value # Nothing
          THEN tasks' = [tasks EXCEPT ![t] = [@ EXCEPT !.pc = "idle", !.ret = cached.value[1],
                                                       !.conn = <<conn>>]]
          ELSE tasks' = [tasks EXCEPT ![t] = [@ EXCEPT !.pc = "get_query", !.conn = <<conn>>]]
    /\ UNCHANGED <<escrow_vars, ledger_vars, cache_vars, pay, hook_vars>>

\* The SELECT: no row returns Ok(None) without caching, a row goes on to the set.
get_query(t) ==
    /\ tasks[t].pc = "get_query"
    /\ LET pair == tasks[t].pair
           rate == query_current_rate(pair)
       IN IF rate = None
          THEN tasks' = [tasks EXCEPT ![t] = [@ EXCEPT !.pc = "idle", !.ret = None]]
          ELSE tasks' = [tasks EXCEPT ![t] = [@ EXCEPT !.pc = "get_fill", !.rate = rate]]
    /\ UNCHANGED <<escrow_vars, ledger_vars, cache_vars, pay, hook_vars>>

\* cache.set(&cache_key, rate_result, Some(ttl)) with the rate the query returned,
\* and the return of that rate.
get_fill(t, conn) ==
    /\ tasks[t].pc = "get_fill"
    /\ redis' = cache_set_store(CurrencyPairKey(tasks[t].pair), "ExchangeRate", tasks[t].rate,
                                EXCHANGE_RATES, conn)
    /\ tasks' = [tasks EXCEPT ![t] = [@ EXCEPT !.pc = "idle", !.ret = tasks[t].rate, !.rate = None,
                                               !.conn = Append(tasks[t].conn, conn)]]
    /\ UNCHANGED <<repo_last, db_rates, db_trustlines, tl_next, escrow_vars, ledger_vars, pay, hook_vars>>

\* upsert_rate is called and its INSERT ... ON CONFLICT DO UPDATE is executed: a
\* pair without a row gets one under the new id, which no row has, a pair with a
\* row keeps its id.
upsert_write(t, pair, rate) ==
    /\ tasks[t].pc = "idle"
    /\ LET rate_id == IF db_rates.id[pair] # None THEN db_rates.id[pair]
                       ELSE CHOOSE i \in RateIds : i \notin RateIdsInUse
       IN db_rates' = rate_written(db_rates, pair, rate_id, rate, "upsert_rate")
    /\ tasks' = [disturbed({pair}) EXCEPT ![t] =
                    [Idle EXCEPT !.pc = "upsert_invalidate", !.op = "upsert_rate", !.pair = pair,
                                 !.rate = rate]]
    /\ UNCHANGED <<repo_last, redis, db_trustlines, tl_next, escrow_vars, ledger_vars, pay, hook_vars>>

\* The pair's key is deleted and upsert_rate returns the row.
upsert_invalidate(t, conn) ==
    /\ tasks[t].pc = "upsert_invalidate"
    /\ redis' = upsert_rate_store(tasks[t].pair, conn)
    /\ tasks' = [tasks EXCEPT ![t] = [Idle EXCEPT !.op = "upsert_rate", !.pair = tasks[t].pair,
                                                  !.ret = tasks[t].rate, !.conn = <<conn>>]]
    /\ UNCHANGED <<repo_last, db_rates, db_trustlines, tl_next, escrow_vars, ledger_vars, pay, hook_vars>>

\* A call of the Repository trait on exchange_rates: one statement, no cache call.
RateCall(op, arg, result, table, pairs) ==
    /\ repo_last' = RepoCall(op, arg, <<>>, result)
    /\ db_rates' = table
    /\ tasks' = IF table = db_rates THEN tasks ELSE disturbed(pairs)
    /\ UNCHANGED <<redis, db_trustlines, tl_next, escrow_vars, ledger_vars, pay, hook_vars>>

\* Repository::insert: INSERT of the entity; an id or a pair that has a row
\* violates its unique constraint.
ExchangeRateRepository_insert(id, pair, rate) ==
    IF id \in RateIdsInUse \/ db_rates.id[pair] # None
    THEN RateCall("Repository::insert", <<id>>, Err("DatabaseError"), db_rates, {})
    ELSE RateCall("Repository::insert", <<id>>, Ok(rate),
                  rate_written(db_rates, pair, id, rate, "Repository"), {pair})

\* Repository::update: UPDATE ... WHERE id = $5 sets the pair and the rate of the
\* row with this id; fetch_one fails when there is none.
ExchangeRateRepository_update(id, pair, rate) ==
    IF id \notin RateIdsInUse
    THEN RateCall("Repository::update", <<id>>, Err("DatabaseError"), db_rates, {})
    ELSE LET old == CHOOSE p \in Pairs : db_rates.id[p] = id
         IN IF pair # old /\ db_rates.id[pair] # None
            THEN RateCall("Repository::update", <<id>>, Err("DatabaseError"), db_rates, {})
            ELSE RateCall("Repository::update", <<id>>, Ok(rate),
                          rate_written(IF pair = old THEN db_rates
                                       ELSE rate_removed(db_rates, old, "Repository"),
                                       pair, id, rate, "Repository"),
                          {old, pair})

\* Repository::delete: DELETE ... WHERE id = $1, and whether a row was removed.
ExchangeRateRepository_delete(id) ==
    IF id \notin RateIdsInUse
    THEN RateCall("Repository::delete", <<id>>, Ok(FALSE), db_rates, {})
    ELSE LET old == CHOOSE p \in Pairs : db_rates.id[p] = id
         IN RateCall("Repository::delete", <<id>>, Ok(TRUE), rate_removed(db_rates, old, "Repository"), {old})

\* ------------------------------------------------------ trustline repository
\* PostgreSQL parses a statement before it runs it, and LIMIT is a reserved
\* word: a statement that names a column `limit` without quotes is rejected with
\* a syntax error, whatever the table holds.
ReservedWords == {"limit"}
TrustlineColumns ==
    <<"id", "account", "asset_code", "balance", "limit", "issuer", "status", "created_at", "updated_at">>
parses(columns) == \A i \in 1..Len(columns) : columns[i] \notin ReservedWords

DatabaseError == Err("DatabaseError")

NoRow == [id |-> 0, account |-> "", asset_code |-> "", status |-> "none"]

\* The rows the repository finds in the table when it is constructed.
SeedRow(i) ==
    [id |-> i, account |-> IF i % 2 = 1 THEN "GA1" ELSE "GA2",
     asset_code |-> IF i <= 2 THEN "AFRI" ELSE "USD", status |-> "pending"]

\* The row of the table for the account and asset code, if any.
stored_trustline(account, asset_code) ==
    LET ids == {i \in DOMAIN db_trustlines :
                   /\ db_trustlines[i].account = account
                   /\ db_trustlines[i].asset_code = asset_code}
    IN IF ids = {} THEN NoRow ELSE db_trustlines[CHOOSE i \in ids : TRUE]

\* SELECT id, account, asset_code, balance, limit, ... FROM trustlines
\* WHERE account = $1 AND asset_code = $2
query_trustline(account, asset_code) ==
    IF ~parses(TrustlineColumns) THEN DatabaseError
    ELSE Ok(stored_trustline(account, asset_code))

\* Repository::find_by_id: SELECT id, account, asset_code, balance, limit, ...
\* WHERE id = $1
find_by_id(id) ==
    IF ~parses(TrustlineColumns) THEN DatabaseError
    ELSE Ok(IF id \in DOMAIN db_trustlines THEN db_trustlines[id] ELSE NoRow)

\* find_trustline: Ok(None) when the flag cached for the account reads false,
\* what the SELECT gives otherwise; the flag is read as a bool.
find_trustline_result(account, asset_code, conn_get) ==
    LET cached == cache_get_result(TrustlineKey(account), "bool", conn_get)
    IN IF ~cached.ok THEN Panic
       ELSE IF cached.value = Some(FALSE) THEN Ok(NoRow)
       ELSE query_trustline(account, asset_code)

\* After a SELECT that succeeded, whether a row was found is cached for the
\* account under ttl::TRUSTLINES.
find_trustline_store(account, asset_code, conn_get, conn_set) ==
    LET cached == cache_get_result(TrustlineKey(account), "bool", conn_get)
        found == query_trustline(account, asset_code)
    IN IF ~cached.ok THEN redis
       ELSE IF cached.value = Some(FALSE) THEN redis
       ELSE IF ~found.ok THEN redis
       ELSE cache_set_store(TrustlineKey(account), "bool", found.value # NoRow, TRUSTLINES, conn_set)

\* The SELECT fails whatever the table holds, so the result of the call is that
\* of its cache read and no other call can come between two effects of it.
find_trustline(account, asset_code, conn_get, conn_set) ==
    /\ repo_last' = RepoCall("find_trustline", <<account, asset_code>>, <<conn_get, conn_set>>,
                             find_trustline_result(account, asset_code, conn_get))
    /\ redis' = find_trustline_store(account, asset_code, conn_get, conn_set)
    /\ UNCHANGED <<db_rates, db_trustlines, tl_next, escrow_vars, ledger_vars, later_vars>>

\* INSERT INTO trustlines (id, account, asset_code, balance, limit, ...) ...
\* RETURNING ...: the new row.
insert_trustline(account, asset_code) ==
    IF ~parses(TrustlineColumns) THEN DatabaseError
    ELSE Ok([id |-> tl_next, account |-> account, asset_code |-> asset_code, status |-> "pending"])

\* create_trustline inserts a pending row under a fresh id and then caches `true`
\* for the account; an INSERT that fails returns its error before the cache call.
create_trustline(account, asset_code, conn) ==
    LET inserted == insert_trustline(account, asset_code)
    IN /\ repo_last' = RepoCall("create_trustline", <<account, asset_code>>, <<conn>>, inserted)
       /\ IF ~inserted.ok
          THEN UNCHANGED <<redis, db_trustlines, tl_next>>
          ELSE /\ tl_next <= MaxRows
               /\ db_trustlines' = [i \in DOMAIN db_trustlines \cup {tl_next} |->
                                       IF i = tl_next THEN inserted.value ELSE db_trustlines[i]]
               /\ tl_next' = tl_next + 1
               /\ redis' = cache_set_store(TrustlineKey(account), "bool", TRUE, TRUSTLINES, conn)
       /\ UNCHANGED <<db_rates, escrow_vars, ledger_vars, later_vars>>

\* UPDATE trustlines SET status = $1 ... WHERE id = $2 RETURNING id, ..., limit, ...
update_status_result(id, new_status) ==
    IF ~parses(TrustlineColumns) THEN DatabaseError
    ELSE IF id \notin DOMAIN db_trustlines THEN DatabaseError
    ELSE Ok([db_trustlines[id] EXCEPT !.status = new_status])

\* update_status writes the status of the row with this id; the cache is not touched.
update_status(id, new_status) ==
    LET updated == update_status_result(id, new_status)
    IN /\ repo_last' = RepoCall("update_status", <<id>>, <<>>, updated)
       /\ db_trustlines' = IF updated.ok THEN [db_trustlines EXCEPT ![id] = updated.value]
                           ELSE db_trustlines
       /\ UNCHANGED <<redis, db_rates, tl_next, escrow_vars, ledger_vars, later_vars>>

\* delete looks the row up with find_by_id first and returns its error; after a
\* lookup that succeeded it removes the row and, when there was one, the flag of
\* its account.
delete(id, conn) ==
    LET trustline == find_by_id(id)
        deleted == id \in DOMAIN db_trustlines
    IN /\ repo_last' = RepoCall("delete", <<id>>, <<conn>>, IF trustline.ok THEN Ok(deleted) ELSE trustline)
       /\ IF ~trustline.ok
          THEN UNCHANGED <<redis, db_trustlines>>
          ELSE /\ db_trustlines' = [i \in DOMAIN db_trustlines \ {id} |-> db_trustlines[i]]
               /\ redis' = IF deleted /\ trustline.value # NoRow
                           THEN cache_delete_store(TrustlineKey(trustline.value.account), conn)
                           ELSE redis
       /\ UNCHANGED <<db_rates, tl_next, escrow_vars, ledger_vars, later_vars>>

\* Repository::insert: INSERT of the entity under its own id, naming `limit`;
\* the cache is not touched.
Repository_insert(id, account, asset_code, status) ==
    LET inserted == IF ~parses(TrustlineColumns) \/ id \in DOMAIN db_trustlines THEN DatabaseError
                    ELSE Ok([id |-> id, account |-> account, asset_code |-> asset_code,
                             status |-> status])
    IN /\ repo_last' = RepoCall("Repository::insert", <<id>>, <<>>, inserted)
       /\ db_trustlines' = IF inserted.ok
                           THEN [i \in DOMAIN db_trustlines \cup {id} |->
                                    IF i = id THEN inserted.value ELSE db_trustlines[i]]
                           ELSE db_trustlines
       /\ UNCHANGED <<redis, db_rates, tl_next, escrow_vars, ledger_vars, later_vars>>

\* Repository::update: UPDATE trustlines SET account = $1, asset_code = $2, ...,
\* limit = $4, ... WHERE id = $7 RETURNING ...; the cache is not touched.
Repository_update(id, account, asset_code, status) ==
    LET updated == IF ~parses(TrustlineColumns) \/ id \notin DOMAIN db_trustlines THEN DatabaseError
                   ELSE Ok([id |-> id, account |-> account, asset_code |-> asset_code,
                            status |-> status])
    IN /\ repo_last' = RepoCall("Repository::update", <<id>>, <<>>, updated)
       /\ db_trustlines' = IF updated.ok THEN [db_trustlines EXCEPT ![id] = updated.value]
                           ELSE db_trustlines
       /\ UNCHANGED <<redis, db_rates, tl_next, escrow_vars, ledger_vars, later_vars>>

\* Repository::delete: DELETE FROM trustlines WHERE id = $1, which names no
\* column but id; the cache is not touched.
Repository_delete(id) ==
    /\ repo_last' = RepoCall("Repository::delete", <<id>>, <<>>, Ok(id \in DOMAIN db_trustlines))
    /\ db_trustlines' = [i \in DOMAIN db_trustlines \ {id} |-> db_trustlines[i]]
    /\ UNCHANGED <<redis, db_rates, tl_next, escrow_vars, ledger_vars, later_vars>>

\* ------------------------------------------------- Paystack request loop
\* What one send of the request comes back with: an error of the transport, or a
\* response with a status code and a body.  A 2xx body parses as a
\* PaystackResponse with status true, with status false, or not at all.
TransportError == [kind |-> "error", status |-> 0, body |-> "none"]
Response(status, body) == [kind |-> "response", status |-> status, body |-> body]
Statuses == {200, 302, 404, 429, 500}
Outcomes_of_send ==
    {TransportError}
       \cup {Response(200, b) : b \in {"status_true", "status_false", "unparsable"}}
       \cup {Response(st, "text") : st \in Statuses \ {200}}

\* StatusCode::is_success and StatusCode::is_server_error
is_success(status) == status >= 200 /\ status < 300

\* Variant: client errors count as server errors.
is_server_error_from_400(status) == status >= 400 /\ status < 600

is_server_error(status) == status >= 500 /\ status < 600

\* AppError values the loop returns.
PaymentProviderError(message, is_retryable) ==
    [kind |-> "PaymentProvider", message |-> message, is_retryable |-> is_retryable]
RateLimitError == [kind |-> "RateLimit", message |-> "Paystack", retry_after |-> 60]
NoResult == [ok |-> FALSE, value |-> [kind |-> "none"]]

\* 2_u64.pow(attempt), in seconds
backoff(attempt) == 2 ^ attempt

\* Variant: the loop runs over 0..=max_retries + 1.
in_range_one_more(attempt, max_retries) == attempt <= max_retries + 1

\* for attempt in 0..=self.config.max_retries
in_range(attempt, max_retries) == attempt <= max_retries

\* URLs are sequences of characters: letters, digits and the marks of a URL
\* ('.', ':', '/', '\', '?', '#', '@', '+', '-'), without blanks, brackets or
\* percent escapes.  Every endpoint make_request is called with begins with '/'.
Endpoint == <<"/", "t">>

\* The request as make_request builds it before the loop: client.request(method,
\* &url) with url = base_url followed by the endpoint, then the Authorization
\* header "Bearer <secret_key>"; the JSON body never fails.  The builder holds an
\* error when a byte of the header value is a control character other than a
\* tab, when the URL does not parse, or when it parses without a host:
\*   - the scheme is a letter and then letters, digits, '+', '-' or '.', up to
\*     the first ':', and is read in lower case; a URL without one is relative
\*     and does not parse;
\*   - after http, https, ws, wss and ftp any number of '/' and '\' is skipped
\*     and the authority runs to the next '/', '\', '?' or '#'; after file there
\*     is a host only behind two of '/' and '\', and it runs to the next '/',
\*     '\', '?' or '#'; after another scheme there is an authority only behind
\*     "//", and it runs to the next '/', '?' or '#';
\*   - the host is what the authority holds behind its last '@' and up to the
\*     next ':', and behind the ':' the port is digits only (up to a '\', where
\*     the path of a URL of another scheme may begin) and at most 65535; the
\*     authority of a file URL is all host, and a drive letter or localhost
\*     there is no host;
\*   - the host must not be empty and must hold none of ':', '@' and '\';
\*   - after the six schemes the host is read in lower case, its labels that
\*     begin with "xn--" must be names IDNA accepts (`idna` tells whether they
\*     are: that is decided by tables of Unicode), and a host that ends in a
\*     number must be an IPv4 address: at most four numbers between dots (one
\*     dot may follow the last), each decimal, octal behind a 0 or hexadecimal
\*     behind 0x, below 2^32, the last below 256 to the power of the places it
\*     fills and the others below 256.
\* Keys are sequences of bytes.  Numbers are kept as two digits of base 65536.
RequestBuilder(secret_key, base_url, idna) ==
    LET is_valid(b) == (b >= 32 /\ b # 127) \/ b = 9
        Lower == <<"a", "b", "c", "d", "e", "f", "g", "h", "i", "j", "k", "l", "m",
                   "n", "o", "p", "q", "r", "s", "t", "u", "v", "w", "x", "y", "z">>
        Upper == <<"A", "B", "C", "D", "E", "F", "G", "H", "I", "J", "K", "L", "M",
                   "N", "O", "P", "Q", "R", "S", "T", "U", "V", "W", "X", "Y", "Z">>
        Digits == <<"0", "1", "2", "3", "4", "5", "6", "7", "8", "9">>
        HexDigits == Digits \o <<"a", "b", "c", "d", "e", "f">>
        Range(str) == {str[j] : j \in 1..Len(str)}
        Alpha == Range(Lower) \cup Range(Upper)
        Digit == Range(Digits)
        lower(c) == IF \E j \in 1..26 : Upper[j] = c
                    THEN Lower[CHOOSE j \in 1..26 : Upper[j] = c] ELSE c
        \* the first position in `str` of a character of `cs`, Len(str) + 1
        \* when there is none
        find(str, cs) == CHOOSE k \in 1..(Len(str) + 1) :
                            /\ k <= Len(str) => str[k] \in cs
                            /\ \A j \in 1..(k - 1) : str[j] \notin cs
        \* the last position in `str` of the character `c`, 0 when there is none
        rfind(str, c) == CHOOSE k \in 0..Len(str) :
                            /\ k >= 1 => str[k] = c
                            /\ \A j \in (k + 1)..Len(str) : str[j] # c
        \* the parts of `str` between its dots
        split(str) ==
            LET dots == {j \in 1..Len(str) : str[j] = "."}
                n == Cardinality(dots)
                dot(i) == IF i = 0 THEN 0
                          ELSE IF i = n + 1 THEN Len(str) + 1
                          ELSE CHOOSE d \in dots : Cardinality({e \in dots : e < d}) = i - 1
            IN [i \in 1..(n + 1) |-> SubSeq(str, dot(i - 1) + 1, dot(i) - 1)]
        \* the digits `str` as a number to the base r, kept as <<hi, lo>> for
        \* hi * 65536 + lo, with hi = 65536 for every number from 2^32 on
        number(str, r) ==
            LET digit(c) == (CHOOSE j \in 1..16 : HexDigits[j] = lower(c)) - 1
                next(n, d) == IF n[1] * r + ((n[2] * r + d) \div 65536) > 65535
                              THEN <<65536, 0>>
                              ELSE <<n[1] * r + ((n[2] * r + d) \div 65536),
                                     (n[2] * r + d) % 65536>>
                value[k \in 0..Len(str)] ==
                    IF k = 0 THEN <<0, 0>>
                    ELSE CHOOSE m \in {next(n, digit(str[k])) : n \in {value[k - 1]}} : TRUE
            IN value[Len(str)]
        \* parse_ipv4number: whether `str` is a number (decimal, octal behind a
        \* 0, hexadecimal behind 0x), and the number
        parse_ipv4number(str) ==
            LET hex == Len(str) >= 2 /\ str[1] = "0" /\ str[2] \in {"x", "X"}
                oct == ~hex /\ Len(str) >= 2 /\ str[1] = "0"
                r == IF hex THEN 16 ELSE IF oct THEN 8 ELSE 10
                body == SubSeq(str, (IF hex THEN 3 ELSE IF oct THEN 2 ELSE 1), Len(str))
                valid == \A j \in 1..Len(body) : \E d \in 1..r : HexDigits[d] = lower(body[j])
            IN IF str # <<>> /\ valid
               THEN [ok |-> TRUE, value |-> number(body, r)]
               ELSE [ok |-> FALSE, value |-> <<0, 0>>]
        \* ends_in_a_number, of the labels of a host
        ends_in_a_number(labels) ==
            \E label \in {IF labels[Len(labels)] = <<>> /\ Len(labels) >= 2
                          THEN labels[Len(labels) - 1] ELSE labels[Len(labels)]} :
               (label # <<>> /\ Range(label) \subseteq Digit) \/ parse_ipv4number(label).ok
        \* parse_ipv4addr, of the labels of a host: whether they are an address
        parse_ipv4addr(labels) ==
            \E parts \in {IF labels[Len(labels)] = <<>>
                          THEN SubSeq(labels, 1, Len(labels) - 1) ELSE labels} :
               /\ Len(parts) >= 1
               /\ Len(parts) <= 4
               /\ \E numbers \in {[i \in 1..Len(parts) |-> parse_ipv4number(parts[i])]} :
                     /\ \A i \in 1..Len(parts) : numbers[i].ok /\ numbers[i].value[1] <= 65535
                     /\ \E ipv4 \in {numbers[Len(parts)].value} :
                           CASE Len(parts) = 1 -> TRUE
                             [] Len(parts) = 2 -> ipv4[1] < 256
                             [] Len(parts) = 3 -> ipv4[1] = 0
                             [] Len(parts) = 4 -> ipv4[1] = 0 /\ ipv4[2] < 256
                     /\ \A i \in 1..(Len(parts) - 1) :
                           numbers[i].value[1] = 0 /\ numbers[i].value[2] < 256
        \* Host::parse, of the host of a special scheme in lower case
        parse(host) ==
            \E labels \in {split(host)} :
               /\ (\E i \in 1..Len(labels) :
                      /\ Len(labels[i]) >= 4
                      /\ SubSeq(labels[i], 1, 4) = <<"x", "n", "-", "-">>) => idna
               /\ ends_in_a_number(labels) => parse_ipv4addr(labels)
        \* the host and what follows it up to the end of the authority
        host_and_port(special, file, authority) ==
            \E hostport \in {IF file THEN authority
                             ELSE SubSeq(authority, rfind(authority, "@") + 1, Len(authority))} :
            \E host_end \in {IF file THEN Len(hostport) + 1 ELSE find(hostport, {":"})} :
            \E host \in {[j \in 1..(host_end - 1) |->
                            IF special THEN lower(hostport[j]) ELSE hostport[j]]},
               behind_host \in {SubSeq(hostport, host_end + 1, Len(hostport))} :
            \E port \in {SubSeq(behind_host, 1, find(behind_host, {"\\"}) - 1)} :
               /\ host # <<>>
               /\ Range(host) \cap {":", "@", "\\"} = {}
               /\ Range(port) \subseteq Digit
               /\ number(port, 10)[1] = 0
               /\ special => parse(host)
               /\ file => /\ ~(Len(host) = 2 /\ host[1] \in Alpha /\ host[2] = ":")
                          /\ host # <<"l", "o", "c", "a", "l", "h", "o", "s", "t">>
        \* Url::parse and Url::has_host; a name bound in a set of one value
        \* stands for that value
        has_host(url) ==
            \E colon \in {find(url, {":"})} :
               /\ colon >= 2
               /\ colon <= Len(url)
               /\ url[1] \in Alpha
               /\ \A j \in 2..(colon - 1) : url[j] \in Alpha \cup Digit \cup {"+", "-", "."}
               /\ \E scheme \in {[j \in 1..(colon - 1) |-> lower(url[j])]},
                     rest \in {SubSeq(url, colon + 1, Len(url))} :
                  \E file \in {scheme = <<"f", "i", "l", "e">>} :
                  \E special \in {file \/ scheme \in {<<"h", "t", "t", "p">>,
                                                      <<"h", "t", "t", "p", "s">>,
                                                      <<"w", "s">>, <<"w", "s", "s">>,
                                                      <<"f", "t", "p">>}} :
                  \E slash \in {IF special THEN {"/", "\\"} ELSE {"/"}} :
                  \E slashes \in {CHOOSE n \in 0..Len(rest) :
                                     /\ \A j \in 1..n : rest[j] \in slash
                                     /\ n < Len(rest) => rest[n + 1] \notin slash} :
                     /\ (special /\ ~file) \/ slashes >= 2
                     /\ \E behind \in {SubSeq(rest, (IF special /\ ~file THEN slashes ELSE 2) + 1,
                                              Len(rest))} :
                           host_and_port(special, file,
                                         SubSeq(behind, 1, find(behind, slash \cup {"?", "#"}) - 1))
    IN IF has_host(base_url \o Endpoint) /\ \A k \in 1..Len(secret_key) : is_valid(secret_key[k])
       THEN "Ok" ELSE "Err"

\* PAYSTACK_SECRET_KEY: "sk", and "sk" followed by a line feed.
SecretKeys == {<<115, 107>>, <<115, 107, 10>>}
\* PAYSTACK_BASE_URL: "https://a.co", "http://a.co:3000" and "http://0.0", which
\* have a host; "https:", whose host is then taken from the endpoint; "a.co"
\* without a scheme; "a.co:3000" and "https://:3000" without a host;
\* "http://0.0.256", whose host is no IPv4 address; "https://xn--a.co", whose
\* host holds an international label.
BaseUrls ==
    {<<"h", "t", "t", "p", "s", ":", "/", "/", "a", ".", "c", "o">>,
     <<"h", "t", "t", "p", ":", "/", "/", "a", ".", "c", "o", ":", "3", "0", "0", "0">>,
     <<"h", "t", "t", "p", ":", "/", "/", "0", ".", "0">>,
     <<"h", "t", "t", "p", "s", ":">>,
     <<"a", ".", "c", "o">>,
     <<"a", ".", "c", "o", ":", "3", "0", "0", "0">>,
     <<"h", "t", "t", "p", "s", ":", "/", "/", ":", "3", "0", "0", "0">>,
     <<"h", "t", "t", "p", ":", "/", "/", "0", ".", "0", ".", "2", "5", "6">>,
     <<"h", "t", "t", "p", "s", ":", "/", "/", "x", "n", "-", "-", "a", ".", "c", "o">>}

\* RequestBuilder::try_clone: the request again, or None when the builder holds
\* an error (the body is absent or a JSON value, never a stream).
try_clone(request) == IF request = "Ok" THEN Some("req") ELSE Nothing

\* The body of the loop for one pass: the value it returns, or "continue" after
\* the sleep, or "next" when the arm ends without returning.  When the request
\* does not clone nothing is sent and `outcome` is not looked at.
iteration(attempt, max_retries, request, outcome) ==
    IF try_clone(request) = Nothing
    THEN [do |-> "return", result |-> Err(PaymentProviderError("Failed to clone request", FALSE))]
    ELSE IF outcome.kind = "response"
    THEN IF is_success(outcome.status)
         THEN IF outcome.body = "unparsable"
              THEN [do |-> "return", result |-> Err(PaymentProviderError("Invalid response format", FALSE))]
              ELSE IF outcome.body = "status_true"
              THEN [do |-> "return", result |-> Ok("data")]
              ELSE [do |-> "return", result |-> Err(PaymentProviderError("message", FALSE))]
         ELSE IF outcome.status = 429
         THEN IF attempt < max_retries
              THEN [do |-> "continue", result |-> NoResult]
              ELSE [do |-> "return", result |-> Err(RateLimitError)]
         ELSE IF is_server_error(outcome.status) /\ attempt < max_retries
         THEN [do |-> "continue", result |-> NoResult]
         ELSE [do |-> "return",
               result |-> Err(PaymentProviderError("HTTP", is_server_error(outcome.status)))]
    ELSE IF attempt < max_retries
         THEN [do |-> "continue", result |-> NoResult]
         ELSE [do |-> "next", result |-> NoResult]

\* The error after the loop.
exhausted == Err(PaymentProviderError("Request failed after retries", TRUE))

\* make_request is called, up to its first await: the request is built and the
\* loop is entered at attempt 0.  A request that clones is sent; one that does
\* not makes the call return at once, with nothing sent and no sleep.
make_request(max_retries, secret_key, base_url, idna) ==
    /\ pay.pc # "sending"
    /\ LET request == RequestBuilder(secret_key, base_url, idna)
           entered == [pc |-> "sending", max_retries |-> max_retries, request |-> request,
                       attempt |-> 0, answers |-> <<>>, slept |-> <<>>, last_error |-> FALSE,
                       result |-> NoResult]
       IN pay' = IF try_clone(request) = Nothing
                 THEN [entered EXCEPT !.pc = "done",
                                      !.result = iteration(0, max_retries, request, NoResult).result]
                 ELSE entered
    /\ UNCHANGED <<escrow_vars, ledger_vars, cache_vars, hook_vars, tasks>>

\* One pass of the loop: req.send().await comes back with `outcome`.
send(outcome) ==
    /\ pay.pc = "sending"
    /\ in_range(pay.attempt, pay.max_retries)
    /\ LET it == iteration(pay.attempt, pay.max_retries, pay.request, outcome)
           answers == Append(pay.answers, outcome)
           last_error == pay.last_error \/ outcome.kind = "error"
       IN pay' =
             IF it.do = "return"
             THEN [pay EXCEPT !.pc = "done", !.answers = answers, !.result = it.result]
             ELSE IF in_range(pay.attempt + 1, pay.max_retries)
             THEN [pay EXCEPT !.attempt = @ + 1, !.answers = answers, !.last_error = last_error,
                              !.slept = IF it.do = "continue" THEN Append(@, backoff(pay.attempt)) ELSE @]
             ELSE [pay EXCEPT !.pc = "done", !.answers = answers, !.last_error = last_error,
                              !.slept = IF it.do = "continue" THEN Append(@, backoff(pay.attempt)) ELSE @,
                              !.result = exhausted]
    /\ UNCHANGED <<escrow_vars, ledger_vars, cache_vars, hook_vars, tasks>>

\* ------------------------------------------------------ webhook repository
\* A row of webhook_events as log_event inserts it: status 'pending', no
\* processed_at, no error_message, retry_count at its column default, and
\* created_at the time of the insert.  The time of the n-th insert into the
\* table is n; 0 is a time before any of them.
WebhookEvent ==
    [status |-> "pending", retry_count |-> 0, processed_at |-> None, error_message |-> None,
     created_at |-> hook_next]

HookCall(op, id, ret) == [op |-> op, id |-> id, ret |-> ret]

\* INSERT INTO webhook_events (...) VALUES (..., 'pending') RETURNING ...; the id
\* of the row is fresh.
log_event ==
    /\ hook_next <= MaxEvents
    /\ hooks' = [i \in DOMAIN hooks \cup {hook_next} |->
                    IF i = hook_next THEN WebhookEvent ELSE hooks[i]]
    /\ hook_next' = hook_next + 1
    /\ hook_last' = HookCall("log_event", hook_next, <<hook_next>>)
    /\ UNCHANGED <<escrow_vars, ledger_vars, cache_vars, pay, tasks>>

\* WHERE status = 'pending' AND retry_count < 5
is_pending(row) == row.status = "pending" /\ row.retry_count < RETRY_LIMIT

\* ... ORDER BY created_at ASC LIMIT $1: the ids of the first `limit` pending
\* rows, in every order the statement may give them: rows of one created_at come
\* in either order.
get_pending_events_result(limit) ==
    LET ids == {i \in DOMAIN hooks : is_pending(hooks[i])}
        n == Cardinality(ids)
        sorted == {s \in [1..n -> ids] :
                      /\ \A i \in ids : \E k \in 1..n : s[k] = i
                      /\ \A k \in 1..(n - 1) : hooks[s[k]].created_at <= hooks[s[k + 1]].created_at}
    IN {[k \in 1..(IF limit < n THEN limit ELSE n) |-> s[k]] : s \in sorted}

get_pending_events(limit) ==
    /\ \E ret \in get_pending_events_result(limit) :
          hook_last' = HookCall("get_pending_events", 0, ret)
    /\ UNCHANGED <<hooks, hook_next, escrow_vars, ledger_vars, cache_vars, pay, tasks>>

\* SET status = 'completed', processed_at = NOW() WHERE id = $1
mark_processed_row(row) == [row EXCEPT !.status = "completed", !.processed_at = "now"]

\* fetch_one fails with RowNotFound when no row has the id; nothing is written.
mark_processed(id) ==
    IF id \notin DOMAIN hooks
    THEN UNCHANGED vars
    ELSE /\ hooks' = [hooks EXCEPT ![id] = mark_processed_row(@)]
         /\ hook_last' = HookCall("mark_processed", id, <<id>>)
         /\ UNCHANGED <<hook_next, escrow_vars, ledger_vars, cache_vars, pay, tasks>>

\* Variant: the event is given up one failure later.
record_failure_row_late(row) ==
    [row EXCEPT !.retry_count = @ + 1, !.error_message = "error",
                !.status = IF row.retry_count + 1 > RETRY_LIMIT THEN "failed" ELSE "pending"]

\* SET retry_count = retry_count + 1, error_message = $2,
\*     status = CASE WHEN retry_count + 1 >= 5 THEN 'failed' ELSE 'pending' END
record_failure_row(row) ==
    [row EXCEPT !.retry_count = @ + 1, !.error_message = "error",
                !.status = IF row.retry_count + 1 >= RETRY_LIMIT THEN "failed" ELSE "pending"]

record_failure(id) ==
    IF id \notin DOMAIN hooks
    THEN UNCHANGED vars
    ELSE /\ hooks[id].retry_count < MaxRetryCount
         /\ hooks' = [hooks EXCEPT ![id] = record_failure_row(@)]
         /\ hook_last' = HookCall("record_failure", id, <<id>>)
         /\ UNCHANGED <<hook_next, escrow_vars, ledger_vars, cache_vars, pay, tasks>>

\* The entities handed to Repository::insert and Repository::update: status,
\* retry_count, processed_at and error_message as the caller sets them.
Entities ==
    {[status |-> "pending", retry_count |-> 0, processed_at |-> None, error_message |-> None],
     [status |-> "completed", retry_count |-> 3, processed_at |-> "now", error_message |-> "error"],
     [status |-> "pending", retry_count |-> RETRY_LIMIT, processed_at |-> None, error_message |-> "error"]}

\* Repository::insert: INSERT INTO webhook_events (..., status, ..., processed_at,
\* retry_count, error_message, created_at) VALUES ($1, ...) RETURNING ...: the row
\* holds what the entity holds, created_at included; the id of the row is fresh.
WebhookRepository_insert(entity, created_at) ==
    /\ hook_next <= MaxEvents
    /\ hooks' = [i \in DOMAIN hooks \cup {hook_next} |->
                    IF i = hook_next
                    THEN [status |-> entity.status, retry_count |-> entity.retry_count,
                          processed_at |-> entity.processed_at,
                          error_message |-> entity.error_message, created_at |-> created_at]
                    ELSE hooks[i]]
    /\ hook_next' = hook_next + 1
    /\ hook_last' = HookCall("Repository::insert", hook_next, <<hook_next>>)
    /\ UNCHANGED <<escrow_vars, ledger_vars, cache_vars, pay, tasks>>

\* Repository::update: UPDATE webhook_events SET ..., status = $6, ...,
\* processed_at = $8, retry_count = $9, error_message = $10 WHERE id = $11
\* RETURNING ...: created_at stays; fetch_one fails with RowNotFound when no row
\* has the id, and nothing is written.
WebhookRepository_update(id, entity) ==
    IF id \notin DOMAIN hooks
    THEN UNCHANGED vars
    ELSE /\ hooks' = [hooks EXCEPT ![id] =
                         [@ EXCEPT !.status = entity.status, !.retry_count = entity.retry_count,
                                   !.processed_at = entity.processed_at,
                                   !.error_message = entity.error_message]]
         /\ hook_last' = HookCall("Repository::update", id, <<id>>)
         /\ UNCHANGED <<hook_next, escrow_vars, ledger_vars, cache_vars, pay, tasks>>

\* Repository::delete: DELETE FROM webhook_events WHERE id = $1; returns whether a
\* row went.
WebhookRepository_delete(id) ==
    /\ hooks' = [i \in DOMAIN hooks \ {id} |-> hooks[i]]
    /\ hook_last' = HookCall("Repository::delete", id, <<id \in DOMAIN hooks>>)
    /\ UNCHANGED <<hook_next, escrow_vars, ledger_vars, cache_vars, pay, tasks>>

\* ------------------------------------------------------------ specifications
Sellers == {"alice"}

Next ==
    \/ \E r \in {50, 1500} : initialize("carol", r, Treasury, Resolver)
    \/ \E c \in Addresses : pause(c)
    \/ \E c \in Addresses : unpause(c)
    \/ \E s \in Sellers, t \in Tokens, m \in Amounts : create_order(s, t, m, 1)
    \/ \E i \in OrderIds, b \in Addresses, x \in BOOLEAN, y \in BOOLEAN : accept_order(i, b, x, y)
    \/ \E i \in OrderIds, c \in Addresses : confirm_payment_sent(i, c)
    \/ \E i \in OrderIds, c \in Addresses : release(i, c)
    \/ \E i \in OrderIds, c \in Addresses : raise_dispute(i, c)
    \/ \E i \in OrderIds, o \in Outcomes : resolve(i, Resolver, o)
    \/ \E i \in OrderIds, c \in Addresses : cancel(i, c)
    \/ \E i \in OrderIds : expire(i)
    \/ Tick

Spec == Init /\ [][Next]_vars

\* Governance in full, over a contract that takes and accepts orders.
GovNext ==
    \/ \E a \in Addresses, r \in FeeRates : initialize(a, r, Treasury, Resolver)
    \/ \E c \in Addresses, a \in Addresses : set_admin(c, a)
    \/ \E c \in Addresses, r \in FeeRates : set_fee_rate(c, r)
    \/ \E c \in Addresses, t \in {Treasury, "bob"} : set_fee_treasury(c, t)
    \/ \E c \in Addresses, d \in {Resolver, "bob"} : set_dispute_resolver(c, d)
    \/ \E c \in Addresses : pause(c)
    \/ \E c \in Addresses : unpause(c)
    \/ \E s \in Sellers, t \in Tokens, m \in Amounts : create_order(s, t, m, 1)
    \/ \E i \in OrderIds, b \in Addresses, x \in BOOLEAN, y \in BOOLEAN : accept_order(i, b, x, y)

GovSpec == Init /\ [][GovNext]_vars

\* Settlement under fee rates that change between lock and release, over amounts
\* that the rate does not divide: one seller, one buyer, no clock.
FeeAmounts == {1000, 199}
FeeSpecRates == {0, 50, 1000, 1500}

FeeNext ==
    \/ \E r \in FeeSpecRates : initialize("carol", r, Treasury, Resolver)
    \/ \E r \in FeeSpecRates : set_fee_rate("carol", r)
    \/ \E m \in FeeAmounts : create_order("alice", "USDC", m, 1)
    \/ \E i \in OrderIds : accept_order(i, "bob", TRUE, TRUE)
    \/ \E i \in OrderIds : confirm_payment_sent(i, "bob")
    \/ \E i \in OrderIds : release(i, "alice")
    \/ \E i \in OrderIds : raise_dispute(i, "bob")
    \/ \E i \in OrderIds, o \in Outcomes : resolve(i, Resolver, o)

FeeSpec == Init /\ [][FeeNext]_vars

\* The AFRI ledger: the entry points of AfrIContract and the functions of
\* contract.rs over one storage, invoked by any address with any amount.
LedgerNext ==
    \/ \E i \in Addresses, a \in Addresses : init(i, a)
    \/ \E i \in Addresses, c \in Addresses, t \in Addresses, m \in LedgerAmounts : AfrIContract_mint(i, c, t, m)
    \/ \E i \in Addresses, f \in Addresses, m \in LedgerAmounts : AfrIContract_burn(i, f, m)
    \/ \E i \in Addresses, f \in Addresses, t \in Addresses, m \in LedgerAmounts : AfrIContract_transfer(i, f, t, m)
    \/ \E i \in Addresses, t \in Addresses, m \in LedgerAmounts : contract_mint(i, t, m)
    \/ \E i \in Addresses, f \in Addresses, m \in LedgerAmounts : contract_burn(i, f, m)
    \/ \E i \in Addresses, f \in Addresses, t \in Addresses, m \in LedgerAmounts : contract_transfer(i, f, t, m)

LedgerSpec == Init /\ [][LedgerNext]_vars

\* The exchange rate repository with caching enabled: one caller whose calls run
\* one after another, each cache call with or without a connection, beside the
\* Repository calls on the table, and keys that expire.
RateNext ==
    \/ \E p \in Pairs : get_start("t1", p)
    \/ \E c \in BOOLEAN : get_cache("t1", c)
    \/ get_query("t1")
    \/ \E c \in BOOLEAN : get_fill("t1", c)
    \/ \E p \in Pairs, r \in Rates : upsert_write("t1", p, r)
    \/ \E c \in BOOLEAN : upsert_invalidate("t1", c)
    \/ \E i \in RateIds, p \in Pairs, r \in Rates : ExchangeRateRepository_insert(i, p, r)
    \/ \E i \in RateIds, p \in Pairs, r \in Rates : ExchangeRateRepository_update(i, p, r)
    \/ \E i \in RateIds : ExchangeRateRepository_delete(i)
    \/ Elapse(45)

RateSpec == Init /\ [][RateNext]_vars

\* The trustline repository with caching enabled, over a table that holds up to
\* MaxRows rows when the repository is constructed, beside another user of the
\* cache that writes the accounts' keys.
TrustInit ==
    /\ InitOther
    /\ \E n \in 0..MaxRows :
          /\ db_trustlines = [i \in 1..n |-> SeedRow(i)]
          /\ tl_next = n + 1

TrustNext ==
    \/ \E a \in TlAccounts, c \in AssetCodes, g \in BOOLEAN, x \in BOOLEAN : find_trustline(a, c, g, x)
    \/ \E a \in TlAccounts, c \in AssetCodes, x \in BOOLEAN : create_trustline(a, c, x)
    \/ \E i \in 1..MaxRows, st \in {"active", "revoked"} : update_status(i, st)
    \/ \E i \in 1..MaxRows, x \in BOOLEAN : delete(i, x)
    \/ \E i \in 1..MaxRows, a \in TlAccounts, c \in AssetCodes : Repository_insert(i, a, c, "pending")
    \/ \E i \in 1..MaxRows, a \in TlAccounts, c \in AssetCodes : Repository_update(i, a, c, "active")
    \/ \E i \in 1..MaxRows : Repository_delete(i)
    \/ \E a \in TlAccounts, b \in BOOLEAN, x \in BOOLEAN : cache_set(TrustlineKey(a), "bool", b, TRUSTLINES, x)
    \/ \E a \in TlAccounts, x \in BOOLEAN : cache_set(TrustlineKey(a), "String", "1", NoTtl, x)
    \/ Elapse(1800)

TrustSpec == TrustInit /\ [][TrustNext]_vars

\* Every operation of the Cache trait on the counter's key, with and without a
\* connection, beside a caller of the exchange rate repository and a writer of
\* a String under the rate's key.
RawKey == CounterKey
RateKey == CurrencyPairKey(<<"AFRI", "USD">>)
RawTypes == {"String", "i64"}
RawTtls == {NoTtl, 120}

CacheNext ==
    \/ \E T \in RawTypes, c \in BOOLEAN : cache_get(RawKey, T, c)
    \/ \E v \in Strings, t \in RawTtls, c \in BOOLEAN : cache_set(RawKey, "String", v, t, c)
    \/ \E c \in BOOLEAN : cache_set(RateKey, "String", "0.85", NoTtl, c)
    \/ \E c \in BOOLEAN : cache_delete(RawKey, c)
    \/ \E c \in BOOLEAN : cache_exists(RawKey, c)
    \/ \E items \in {<<>>, <<<<RawKey, "1">>, <<RawKey, "0.85">>>>}, t \in RawTtls, c \in BOOLEAN :
          cache_set_multiple(items, "String", t, c)
    \/ \E keys \in {<<>>, <<RawKey>>, <<RawKey, RateKey>>}, T \in RawTypes, c \in BOOLEAN :
          cache_get_multiple(keys, T, c)
    \/ \E m \in {1, 2}, c \in BOOLEAN : cache_increment(RawKey, m, c)
    \/ \E m \in {1, 2}, c \in BOOLEAN : cache_decrement(RawKey, m, c)
    \/ \E x \in BOOLEAN, c \in BOOLEAN : cache_expire(RawKey, 120, x, c)
    \/ \E c \in BOOLEAN : cache_ttl(RawKey, c)
    \/ Elapse(EXCHANGE_RATES)
    \/ \E pre \in {<<"v1", "rate">>, <<"test">>}, c \in BOOLEAN : delete_pattern_keys("t2", pre, c)
    \/ delete_pattern_del("t2")
    \/ get_start("t1", <<"AFRI", "USD">>)
    \/ \E c \in BOOLEAN : get_cache("t1", c)
    \/ get_query("t1")
    \/ \E c \in BOOLEAN : get_fill("t1", c)
    \/ \E r \in Rates : upsert_write("t1", <<"AFRI", "USD">>, r)
    \/ \E c \in BOOLEAN : upsert_invalidate("t1", c)

CacheSpec == Init /\ [][CacheNext]_vars

\* Three tasks calling get_current_rate and upsert_rate on one currency pair,
\* every cache call with a connection, and the pair's key expiring.
ConcPair == <<"AFRI", "USD">>
ConcNext ==
    \/ \E t \in Tasks : get_start(t, ConcPair)
    \/ \E t \in Tasks : get_cache(t, TRUE)
    \/ \E t \in Tasks : get_query(t)
    \/ \E t \in Tasks : get_fill(t, TRUE)
    \/ \E t \in Tasks, r \in Rates : upsert_write(t, ConcPair, r)
    \/ \E t \in Tasks : upsert_invalidate(t, TRUE)
    \/ Elapse(45)

ConcSpec == Init /\ [][ConcNext]_vars

\* One make_request after another, for every max_retries up to the bound and
\* every sequence of answers.
PayNext ==
    \/ \E m \in 0..MaxRetries, k \in SecretKeys, u \in BaseUrls, x \in BOOLEAN :
          make_request(m, k, u, x)
    \/ \E o \in Outcomes_of_send : send(o)

PaySpec == Init /\ [][PayNext]_vars

\* Every send comes back: the client has a timeout, and every sleep ends.
Sending == \E o \in Outcomes_of_send : send(o)
PayLiveSpec == Init /\ [][PayNext]_vars /\ WF_vars(Sending)

\* Webhook events are logged, handed out, marked processed and failed in any
\* order, and rows are written and removed through the Repository trait.
HookNext ==
    \/ log_event
    \/ \E l \in 1..MaxEvents : get_pending_events(l)
    \/ \E i \in 1..MaxEvents : mark_processed(i)
    \/ \E i \in 1..MaxEvents : record_failure(i)
    \/ \E e \in Entities, c \in {0, hook_next} : WebhookRepository_insert(e, c)
    \/ \E i \in 1..MaxEvents, e \in Entities : WebhookRepository_update(i, e)
    \/ \E i \in 1..MaxEvents : WebhookRepository_delete(i)

HookSpec == Init /\ [][HookNext]_vars

\* ------------------------------------------------------------------ claims
\* In a step that changes a variable, last' is the call the step commits.
Funded == {"Locked", "PaymentSent", "Disputed"}
Terminal == {"Completed", "Cancelled"}

\* The transition table of 4.1: <<from, operation, to>>.
TransitionTable ==
    {<<"Open", "accept_order", "Locked">>,
     <<"Locked", "confirm_payment_sent", "PaymentSent">>,
     <<"PaymentSent", "release", "Completed">>,
     <<"Locked", "raise_dispute", "Disputed">>,
     <<"PaymentSent", "raise_dispute", "Disputed">>,
     <<"Disputed", "resolve", "Completed">>,
     <<"Disputed", "resolve", "Cancelled">>,
     <<"Open", "cancel", "Cancelled">>,
     <<"Open", "expire", "Cancelled">>}

\* C1: an order's status changes only along an edge of the transition table, made by
\* the operation of that edge called on that order; no stored order disappears, and
\* a Completed or Cancelled order keeps its status.
C1_StatusFollowsTable ==
    [][\A id \in DOMAIN orders :
          /\ id \in DOMAIN orders'
          /\ orders'[id].status # orders[id].status =>
                /\ <<orders[id].status, last'.op, orders'[id].status>> \in TransitionTable
                /\ last'.id = id
          /\ orders[id].status \in Terminal => orders'[id].status = orders[id].status]_vars

C1_Witness ==
    \E i \in DOMAIN orders, j \in DOMAIN orders :
        /\ orders[i].status = "Completed"
        /\ orders[j].status = "Locked"
        /\ last.op = "accept_order" /\ last.id = j

\* C2: a step that commits accept(order_id, buyer) starts from a state that meets the
\* guards (not paused, order stored and Open, now <= expires_at, buyer # seller) and
\* ends with the order Locked, buyer recorded, and exactly Order.amount of the
\* order's token moved from the seller's balance to the contract's; no other
\* balance moves.
C2_AcceptLocksAndFunds ==
    [][last'.op = "accept_order" =>
          LET id == last'.id
              buyer == last'.who
          IN /\ ~is_paused
             /\ id \in DOMAIN orders
             /\ orders[id].status = "Open"
             /\ now <= orders[id].expires_at
             /\ buyer # orders[id].seller
             /\ orders'[id].status = "Locked"
             /\ orders'[id].buyer = buyer
             /\ LET o == orders[id]
                IN \A t \in Tokens, a \in Accounts :
                      balances'[t][a] - balances[t][a] =
                         IF t = o.token /\ a = o.seller THEN 0 - o.amount
                         ELSE IF t = o.token /\ a = Contract THEN o.amount
                         ELSE 0]_vars

C2_Witness ==
    /\ last.op = "accept_order"
    /\ orders[last.id].status = "Locked"
    /\ orders[last.id].buyer = last.who
    /\ balances[orders[last.id].token][Contract] = orders[last.id].amount
    /\ balances[orders[last.id].token][orders[last.id].seller] = InitialBalance[orders[last.id].seller] - orders[last.id].amount

\* What a call of accept leaves as it was when it fails.  A step that leaves all of
\* it as it was need not be matched against a call, so the properties below look
\* for the calls of accept only in the steps that record one in last.
AcceptCommitsNothing == UNCHANGED <<last, instance, orders, user_orders, balances, custody>>

\* The transfer of accept(order_id, buyer) would be rejected: every guard of accept
\* passes and the token contract refuses to move the seller's funds.
TransferRejected(order_id, buyer, seller_authorised) ==
    /\ ~is_paused
    /\ order_id \in DOMAIN orders
    /\ validate_order_acceptance(orders[order_id], buyer) = "Ok"
    /\ transfer_panics(balances[orders[order_id].token], orders[order_id].seller,
                       orders[order_id].amount, seller_authorised)

\* C3: an accept whose transfer into custody is rejected fails and commits nothing:
\* the order stays Open with no buyer, the buyer's index and every balance are as
\* before, and no order_accepted event is published.
C3_RejectedTransferAborts ==
    [][last'.op = "accept_order" =>
       \A id \in OrderIds, b \in Addresses, y \in BOOLEAN :
          (TransferRejected(id, b, y) /\ accept_order(id, b, TRUE, y)) =>
              /\ accept_order_result(id, b, TRUE, y) # "Ok"
              /\ AcceptCommitsNothing
              /\ orders'[id].status = "Open" /\ orders'[id].buyer = None]_vars

\* An accept whose guards all pass is about to be rejected by the ledger for want of
\* the seller's authorisation, the seller holding enough to fund the order.
C3_Witness ==
    \E id \in DOMAIN orders, b \in Addresses :
        /\ TransferRejected(id, b, FALSE)
        /\ accept_order_result(id, b, TRUE, FALSE) = "TransferRejected"
        /\ balances[orders[id].token][orders[id].seller] >= orders[id].amount
        /\ orders[id].status = "Open" /\ orders[id].buyer = None

RECURSIVE SumOver(_, _)
SumOver(ids, f) ==
    IF ids = {} THEN 0
    ELSE LET i == CHOOSE x \in ids : TRUE
         IN f[i] + SumOver(ids \ {i}, f)

\* C4: the contract holds nothing for an Open order, Order.amount for a Locked,
\* PaymentSent or Disputed one, nothing for a Completed or Cancelled one; and its
\* balance of each token is the sum of the amounts of its funded orders in it.
C4_CustodyMatchesStatus ==
    /\ DOMAIN custody = DOMAIN orders
    /\ \A id \in DOMAIN orders :
          custody[id] = IF orders[id].status \in Funded THEN orders[id].amount ELSE 0
    /\ \A t \in Tokens :
          balances[t][Contract] =
              SumOver(DOMAIN orders,
                      [i \in DOMAIN orders |->
                          IF orders[i].token = t /\ orders[i].status \in Funded
                          THEN orders[i].amount ELSE 0])

C4_Witness ==
    \E i \in DOMAIN orders, j \in DOMAIN orders :
        /\ orders[i].status = "Completed" /\ custody[i] = 0
        /\ orders[j].status = "Disputed" /\ custody[j] = orders[j].amount
        /\ balances[orders[j].token][Contract] = orders[j].amount

\* C5 as stated: accept on a stored order that is not Open, by any buyer, returns
\* InvalidOrderStatus.
C5_Original ==
    \A id \in DOMAIN orders, b \in Addresses, y \in BOOLEAN :
        orders[id].status # "Open" => accept_order_result(id, b, TRUE, y) = "InvalidOrderStatus"

\* C5, amended: accept on a stored order that is not Open, by any buyer, returns
\* InvalidOrderStatus unless the contract is paused, when it returns ContractPaused;
\* either way the order with its buyer, the indexes and the balances stay as they were.
C5_NotOpenRejected ==
    /\ [](\A id \in DOMAIN orders, b \in Addresses, y \in BOOLEAN :
             orders[id].status # "Open" =>
                 accept_order_result(id, b, TRUE, y) =
                     IF is_paused THEN "ContractPaused" ELSE "InvalidOrderStatus")
    /\ [][last'.op = "accept_order" =>
          \A id \in DOMAIN orders, b \in Addresses, x \in BOOLEAN, y \in BOOLEAN :
             (orders[id].status # "Open" /\ accept_order(id, b, x, y)) => AcceptCommitsNothing]_vars

\* accept is about to answer InvalidOrderStatus to a second buyer of a Locked order,
\* while another order is Disputed.
C5_Witness ==
    \E id \in DOMAIN orders, j \in DOMAIN orders, b \in Addresses :
        /\ orders[id].status = "Locked"
        /\ b \notin {orders[id].buyer, orders[id].seller}
        /\ accept_order_result(id, b, TRUE, TRUE) = "InvalidOrderStatus"
        /\ orders[j].status = "Disputed"
        /\ accept_order_result(j, b, TRUE, TRUE) = "InvalidOrderStatus"

\* C6 as stated: accept on an order whose expires_at < now fails with OrderExpired.
C6_Original ==
    \A id \in DOMAIN orders, b \in Addresses, y \in BOOLEAN :
        orders[id].expires_at < now => accept_order_result(id, b, TRUE, y) = "OrderExpired"

\* C6, amended: accept on an order whose expires_at < now always fails and moves no
\* funds; it fails with OrderExpired when the contract is not paused and the order
\* is Open (ContractPaused and InvalidOrderStatus are reported before it).
C6_ExpiredRejected ==
    /\ [](\A id \in DOMAIN orders, b \in Addresses, x \in BOOLEAN, y \in BOOLEAN :
             orders[id].expires_at < now =>
                 /\ accept_order_result(id, b, x, y) # "Ok"
                 /\ (x /\ ~is_paused /\ orders[id].status = "Open") =>
                        accept_order_result(id, b, x, y) = "OrderExpired")
    /\ [][last'.op = "accept_order" =>
          \A id \in DOMAIN orders, b \in Addresses, x \in BOOLEAN, y \in BOOLEAN :
             (orders[id].expires_at < now /\ accept_order(id, b, x, y)) =>
                 UNCHANGED <<balances, custody, orders>>]_vars

C6_Witness ==
    \E id \in DOMAIN orders, b \in Addresses :
        /\ orders[id].status = "Open"
        /\ orders[id].expires_at < now
        /\ b # orders[id].seller
        /\ balances[orders[id].token][orders[id].seller] >= orders[id].amount
        /\ accept_order_result(id, b, TRUE, TRUE) = "OrderExpired"

\* C7 as stated: accept with buyer = seller fails with CannotAcceptOwnOrder.
C7_Original ==
    \A id \in DOMAIN orders, y \in BOOLEAN :
        accept_order_result(id, orders[id].seller, TRUE, y) = "CannotAcceptOwnOrder"

\* C7, amended: accept with buyer = seller always fails; it fails with
\* CannotAcceptOwnOrder when the contract is not paused, the order is Open and
\* now <= expires_at (ContractPaused, InvalidOrderStatus and OrderExpired are
\* reported before it).
C7_OwnOrderRejected ==
    /\ [](\A id \in DOMAIN orders, x \in BOOLEAN, y \in BOOLEAN :
             /\ accept_order_result(id, orders[id].seller, x, y) # "Ok"
             /\ (x /\ ~is_paused /\ orders[id].status = "Open" /\ now <= orders[id].expires_at) =>
                    accept_order_result(id, orders[id].seller, x, y) = "CannotAcceptOwnOrder")
    /\ [][last'.op = "accept_order" =>
          \A id \in DOMAIN orders, x \in BOOLEAN, y \in BOOLEAN :
             accept_order(id, orders[id].seller, x, y) => AcceptCommitsNothing]_vars

C7_Witness ==
    \E id \in DOMAIN orders :
        /\ orders[id].status = "Open"
        /\ now = orders[id].expires_at
        /\ balances[orders[id].token][orders[id].seller] >= orders[id].amount
        /\ accept_order_result(id, orders[id].seller, TRUE, TRUE) = "CannotAcceptOwnOrder"

\* accept(id, buyer) meets every guard of the code and the ledger will move the funds.
AcceptGuardsMet(id, buyer) ==
    /\ id \in DOMAIN orders
    /\ orders[id].status = "Open"
    /\ now <= orders[id].expires_at
    /\ buyer # orders[id].seller
    /\ balances[orders[id].token][orders[id].seller] >= orders[id].amount

\* C8: is_paused is set by a committed pause and cleared only by a committed unpause;
\* while it is set every accept, on any order id, stored or not, in any status,
\* returns ContractPaused and commits nothing; while it is clear (so after unpause)
\* an accept that meets its guards succeeds.
C8_PauseGatesAccept ==
    /\ [](is_paused =>
             \A id \in OrderIds, b \in Addresses, y \in BOOLEAN :
                 accept_order_result(id, b, TRUE, y) = "ContractPaused")
    /\ [](~is_paused =>
             \A id \in OrderIds, b \in Addresses :
                 AcceptGuardsMet(id, b) => accept_order_result(id, b, TRUE, TRUE) = "Ok")
    /\ [][/\ last'.op = "pause" => is_paused'
          /\ last'.op = "unpause" => ~is_paused'
          /\ is_paused' # is_paused => last'.op = IF is_paused THEN "unpause" ELSE "pause"
          /\ (is_paused /\ last'.op = "accept_order") =>
                \A id \in OrderIds, b \in Addresses, x \in BOOLEAN, y \in BOOLEAN :
                   accept_order(id, b, x, y) => AcceptCommitsNothing]_vars

\* pause has just been committed; accept answers ContractPaused for an order that
\* meets every guard and for an order id that is not stored.
C8_Witness ==
    /\ last.op = "pause"
    /\ is_paused
    /\ \E id \in OrderIds, b \in Addresses :
          AcceptGuardsMet(id, b) /\ accept_order_result(id, b, TRUE, TRUE) = "ContractPaused"
    /\ \E id \in OrderIds, b \in Addresses :
          id \notin DOMAIN orders /\ accept_order_result(id, b, TRUE, TRUE) = "ContractPaused"

\* C9: while the contract is paused, every governance call authorised by the current
\* admin succeeds (set_fee_rate within the bound) and takes effect, is_paused and
\* get_admin return the stored values, and accept is what is blocked.
C9_GovernanceWhilePaused ==
    /\ [](is_paused =>
             /\ require_admin(instance.Admin) = "Ok"
             /\ \A r \in FeeRates :
                   set_fee_rate_result(instance.Admin, r) =
                       IF r > MAX_FEE_RATE THEN "InvalidFeeRate" ELSE "Ok"
             /\ get_admin = instance.Admin
             /\ is_paused = instance.IsPaused
             /\ \A id \in OrderIds, b \in Addresses, y \in BOOLEAN :
                   accept_order_result(id, b, TRUE, y) = "ContractPaused")
    /\ [][is_paused =>
             LET admin == instance.Admin
             IN /\ \A a \in Addresses : set_admin(admin, a) => instance'.Admin = a
                /\ \A r \in FeeRates :
                      (r <= MAX_FEE_RATE /\ set_fee_rate(admin, r)) => instance'.FeeRate = r
                /\ \A t \in Accounts : set_fee_treasury(admin, t) => instance'.FeeTreasury = t
                /\ \A d \in Accounts : set_dispute_resolver(admin, d) => instance'.DisputeResolver = d
                /\ pause(admin) => is_paused'
                /\ unpause(admin) => ~is_paused']_vars

\* The admin has just handed the contract over to another address while paused.
C9_Witness ==
    /\ is_paused
    /\ last.op = "set_admin"
    /\ last.arg # last.who
    /\ get_admin = last.arg
    /\ require_admin(last.arg) = "Ok"

\* C10: once initialize has succeeded, initialize returns AlreadyInitialized for every
\* argument, a fee_rate above the bound included, and admin, fee_rate, fee_treasury,
\* dispute_resolver, is_paused and order_count stay as they were.
C10_InitializeOnce ==
    /\ [](has("Admin") => \A r \in FeeRates \cup {0, MAX_FEE_RATE + 1} :
                             initialize_result(r) = "AlreadyInitialized")
    /\ [][has("Admin") =>
             /\ has("Admin")'
             /\ \A a \in Addresses, r \in FeeRates, t \in {Treasury, "bob"}, d \in {Resolver, "bob"} :
                   initialize(a, r, t, d) => UNCHANGED instance]_vars

\* After orders were taken and the admin changed, initialize still answers
\* AlreadyInitialized, also to a fee_rate above the bound.
C10_Witness ==
    /\ has("Admin")
    /\ instance.OrderCount > 0
    /\ last.op = "set_admin"
    /\ instance.Admin # "alice"
    /\ initialize_result(1500) = "AlreadyInitialized"
    /\ initialize_result(50) = "AlreadyInitialized"

\* C11: in every reachable state of an initialized contract the stored fee_rate is
\* at most 1000 basis points.
C11_FeeRateBounded ==
    has("Admin") => (has("FeeRate") /\ instance.FeeRate \in 0..MAX_FEE_RATE)

\* The fee rate was just raised to the bound itself by set_fee_rate.
C11_Witness ==
    /\ last.op = "set_fee_rate"
    /\ last.arg = MAX_FEE_RATE
    /\ instance.FeeRate = MAX_FEE_RATE

\* C12: set_fee_rate(r) authorised by the admin returns Ok exactly when r <= 1000
\* and InvalidFeeRate otherwise; when it succeeds the stored fee_rate is r, when it
\* fails the stored fee_rate is the previous one.
C12_SetFeeRateBound ==
    /\ [](has("Admin") =>
             \A r \in FeeRates \cup {0, MAX_FEE_RATE, MAX_FEE_RATE + 1} :
                 set_fee_rate_result(instance.Admin, r) =
                     IF r <= MAX_FEE_RATE THEN "Ok" ELSE "InvalidFeeRate")
    /\ [][has("Admin") =>
             \A r \in FeeRates :
                 set_fee_rate(instance.Admin, r) =>
                     instance'.FeeRate = IF r <= MAX_FEE_RATE THEN r ELSE instance.FeeRate]_vars

\* The admin has just lowered the fee rate from the bound; a rate above the bound
\* is about to be refused.
C12_Witness ==
    /\ last.op = "set_fee_rate"
    /\ last.who = instance.Admin
    /\ last.arg = 50
    /\ instance.FeeRate = 50
    /\ set_fee_rate_result(instance.Admin, 1500) = "InvalidFeeRate"
    /\ set_fee_rate_result(instance.Admin, MAX_FEE_RATE) = "Ok"

\* The governance fields an admin call writes.
AdminFields == {"Admin", "FeeRate", "FeeTreasury", "DisputeResolver", "IsPaused"}

AdminCalls == {"set_admin", "set_fee_rate", "set_fee_treasury", "set_dispute_resolver",
               "pause", "unpause"}

\* C13 as stated: an admin call that the current admin has not authorised returns
\* Unauthorized.
C13_Original ==
    has("Admin") =>
        \A c \in Addresses \ {instance.Admin} :
            /\ require_admin(c) = "Unauthorized"
            /\ \A r \in FeeRates : set_fee_rate_result(c, r) = "Unauthorized"

\* C13, what holds: an admin call that the current admin has not authorised is
\* aborted at require_auth, whatever its argument, and leaves instance storage as
\* it was; after initialize the admin fields change only in a step that commits an
\* admin call made by the admin of the state it starts from.
C13_OnlyAdminChangesGovernance ==
    /\ [](has("Admin") =>
             \A c \in Addresses \ {instance.Admin} :
                 /\ require_admin(c) = "AuthFailed"
                 /\ \A r \in FeeRates : set_fee_rate_result(c, r) = "AuthFailed")
    /\ [][has("Admin") =>
             /\ \A c \in Addresses \ {instance.Admin} :
                   /\ \A a \in Addresses : set_admin(c, a) => UNCHANGED instance
                   /\ \A r \in FeeRates : set_fee_rate(c, r) => UNCHANGED instance
                   /\ \A t \in Accounts : set_fee_treasury(c, t) => UNCHANGED instance
                   /\ \A d \in Accounts : set_dispute_resolver(c, d) => UNCHANGED instance
                   /\ pause(c) => UNCHANGED instance
                   /\ unpause(c) => UNCHANGED instance
             /\ (\E k \in AdminFields : instance'[k] # instance[k]) =>
                   (last'.op \in AdminCalls /\ last'.who = instance.Admin)]_vars

\* The admin has just moved the treasury; the same call by any other address is
\* about to be aborted at require_auth.
C13_Witness ==
    /\ last.op = "set_fee_treasury"
    /\ instance.FeeTreasury = "bob"
    /\ \E c \in Addresses \ {instance.Admin} :
          /\ require_admin(c) = "AuthFailed"
          /\ set_fee_rate_result(c, 50) = "AuthFailed"
          /\ set_fee_rate_result(instance.Admin, 50) = "Ok"

\* C14 as stated: before initialize every mutating call, accept included, returns
\* NotInitialized.
C14_Original ==
    ~has("Admin") =>
        /\ \A c \in Addresses :
              /\ require_admin(c) = "NotInitialized"
              /\ \A r \in FeeRates : set_fee_rate_result(c, r) = "NotInitialized"
        /\ \A id \in OrderIds, b \in Addresses, y \in BOOLEAN :
              accept_order_result(id, b, TRUE, y) = "NotInitialized"

\* C14, what holds: before initialize every admin call returns NotInitialized,
\* whoever authorised it; an accept the buyer authorised returns OrderNotFound; and
\* no step but a successful initialize changes anything.
C14_NothingBeforeInitialize ==
    /\ [](~has("Admin") =>
             /\ \A c \in Addresses :
                   /\ require_admin(c) = "NotInitialized"
                   /\ \A r \in FeeRates : set_fee_rate_result(c, r) = "NotInitialized"
             /\ \A id \in OrderIds, b \in Addresses, y \in BOOLEAN :
                   accept_order_result(id, b, TRUE, y) = "OrderNotFound")
    /\ [][(~has("Admin") /\ last'.op # "initialize") => UNCHANGED vars]_vars

\* The contract as registered: no admin, no order; accept is about to answer
\* OrderNotFound and pause NotInitialized.
C14_Witness ==
    /\ ~has("Admin")
    /\ DOMAIN orders = {}
    /\ accept_order_result(1, "bob", TRUE, TRUE) = "OrderNotFound"
    /\ require_admin("carol") = "NotInitialized"

\* C15: a set_admin(new_admin) the admin authorised makes get_admin return new_admin
\* and moves the authority: from then on an admin call passes its authorisation
\* check with new_admin's authorisation and with no other, the previous admin's
\* included; at all times the admin calls answer to the stored admin alone.
C15_SetAdminMovesAuthority ==
    /\ [](has("Admin") =>
             /\ get_admin = instance.Admin
             /\ \A c \in Addresses : (require_admin(c) = "Ok") <=> (c = instance.Admin))
    /\ [][has("Admin") =>
             \A a \in Addresses :
                 set_admin(instance.Admin, a) =>
                     /\ get_admin' = a
                     /\ require_admin(a)' = "Ok"
                     /\ set_fee_rate_result(a, 50)' = "Ok"
                     /\ \A c \in Addresses \ {a} :
                           /\ require_admin(c)' = "AuthFailed"
                           /\ set_fee_rate_result(c, 50)' = "AuthFailed"]_vars

\* The admin has just handed an unpaused contract over to another address: the old
\* admin's authorisation no longer passes, the new admin's does.
C15_Witness ==
    /\ last.op = "set_admin"
    /\ last.arg # last.who
    /\ ~is_paused
    /\ get_admin = last.arg
    /\ require_admin(last.who) = "AuthFailed"
    /\ set_fee_rate_result(last.arg, 50) = "Ok"

\* C16: is_paused is false when initialize has just succeeded; a successful pause
\* leaves it true and a successful unpause leaves it false, whatever it was before,
\* and nothing else changes it, so it is true exactly when the last successful
\* call among pause and unpause was pause; pause and unpause pass for the admin
\* whatever the flag is; is_paused reads the stored flag (false when none is stored)
\* and takes no caller.
C16_PauseFlag ==
    /\ [](/\ is_paused = (has("IsPaused") /\ instance.IsPaused)
          /\ has("Admin") => require_admin(instance.Admin) = "Ok")
    /\ [][/\ (~has("Admin") /\ has("Admin")') => ~is_paused'
          /\ has("Admin") =>
                /\ pause(instance.Admin) => is_paused'
                /\ unpause(instance.Admin) => ~is_paused'
                /\ is_paused' # is_paused =>
                      /\ last'.op = (IF is_paused THEN "unpause" ELSE "pause")
                      /\ last'.who = instance.Admin]_vars

\* The contract was paused and the fee rate changed since; a second pause by the
\* admin is about to pass and will leave the flag set.
C16_Witness ==
    /\ is_paused
    /\ last.op = "set_fee_rate"
    /\ require_admin(instance.Admin) = "Ok"
    /\ ENABLED (pause(instance.Admin) /\ is_paused' /\ last'.op = "pause")

\* The escrowed amount of order id leaves the contract and the order is Completed.
Disbursed(id) ==
    /\ orders'[id].status = "Completed"
    /\ custody'[id] = 0
    /\ balances'[orders[id].token][Contract] =
           balances[orders[id].token][Contract] - orders[id].amount

\* C17: every funded order can be brought to a terminal status.  On a paused
\* contract the admin's unpause passes.  On an unpaused one: a Locked order has a
\* recorded buyer whose confirm_payment_sent succeeds and leaves it PaymentSent; a
\* PaymentSent order's release by its seller succeeds, the contract holds the
\* amount, and the release leaves it Completed with the escrowed amount
\* disbursed; a Disputed order's resolve by the resolver succeeds and ends it.
C17_FundedCanComplete ==
    \A id \in DOMAIN orders :
        LET o == orders[id]
        IN o.status \in Funded =>
              /\ balances[o.token][Contract] >= o.amount
              /\ is_paused =>
                    ENABLED (unpause(instance.Admin) /\ ~is_paused')
              /\ (~is_paused /\ o.status = "Locked") =>
                    /\ o.buyer \in Addresses
                    /\ ENABLED (confirm_payment_sent(id, o.buyer) /\ orders'[id].status = "PaymentSent")
              /\ (~is_paused /\ o.status = "PaymentSent") =>
                    ENABLED (release(id, o.seller) /\ Disbursed(id))
              /\ (~is_paused /\ o.status = "Disputed") =>
                    ENABLED (\E out \in Outcomes :
                                /\ resolve(id, instance.DisputeResolver, out)
                                /\ orders'[id].status \in Terminal
                                /\ custody'[id] = 0)

\* An accepted order has gone through confirm_payment_sent and release: it is
\* Completed, nothing is held for it, and its buyer was paid.
C17_Witness ==
    /\ last.op = "release"
    /\ orders[last.id].status = "Completed"
    /\ orders[last.id].buyer \in Addresses
    /\ custody[last.id] = 0
    /\ balances[orders[last.id].token][orders[last.id].buyer] > InitialBalance[orders[last.id].buyer]

\* What account a gains in the order's token in the step.
Gain(t, a) == balances'[t][a] - balances[t][a]

\* C18: in every step that completes an order (release, or resolve in favour of the
\* buyer), with f the integer such that f * 10000 <= amount * fee_rate <
\* (f + 1) * 10000 for the fee_rate stored when the step starts, the treasury
\* gains f, the buyer gains amount - f, the contract loses amount and nobody else
\* gains or loses; amount 1000 at fee_rate 50 pays 995 and 5.
C18_FeeSplit ==
    /\ [](fee_of(1000, 50) = 5 /\ 1000 - fee_of(1000, 50) = 995)
    /\ [][\A id \in DOMAIN orders :
             (orders[id].status # "Completed" /\ orders'[id].status = "Completed") =>
                 LET o == orders[id]
                     f == Gain(o.token, instance.FeeTreasury)
                 IN /\ last'.op \in {"release", "resolve"}
                    /\ f >= 0
                    /\ f * 10000 <= o.amount * instance.FeeRate
                    /\ o.amount * instance.FeeRate < (f + 1) * 10000
                    /\ Gain(o.token, o.buyer) = o.amount - f
                    /\ Gain(o.token, o.buyer) + f = o.amount
                    /\ Gain(o.token, Contract) = 0 - o.amount
                    /\ \A a \in Accounts \ {o.buyer, instance.FeeTreasury, Contract} :
                          Gain(o.token, a) = 0]_vars

\* An order of 199 was released at fee_rate 1000:
\* 19.9 is floored, so the treasury holds 19 and the buyer was paid 180.
C18_Witness ==
    /\ last.op = "release"
    /\ orders[last.id].status = "Completed"
    /\ orders[last.id].amount = 199
    /\ instance.FeeRate = 1000
    /\ balances[orders[last.id].token][instance.FeeTreasury] = 19
    /\ balances[orders[last.id].token][orders[last.id].buyer] =
           InitialBalance[orders[last.id].buyer] + 180

\* C19: on an unpaused contract resolve(favor_seller) by the resolver succeeds on
\* every Disputed order, and every step that commits it takes a Disputed order to
\* Cancelled, returns the whole amount from the contract to the seller, and pays
\* nothing to the treasury, the buyer or anyone else, whatever the fee rate.
C19_FavorSellerRefundsAll ==
    /\ [](\A id \in DOMAIN orders :
             (orders[id].status = "Disputed" /\ ~is_paused) =>
                 ENABLED resolve(id, instance.DisputeResolver, "favor_seller"))
    /\ [][(last'.op = "resolve" /\ last'.arg = "favor_seller") =>
             LET o == orders[last'.id]
             IN /\ resolve(o.id, instance.DisputeResolver, "favor_seller")
                /\ o.status = "Disputed"
                /\ orders'[o.id].status = "Cancelled"
                /\ custody'[o.id] = 0
                /\ Gain(o.token, o.seller) = o.amount
                /\ Gain(o.token, Contract) = 0 - o.amount
                /\ \A a \in Accounts \ {o.seller, Contract} : Gain(o.token, a) = 0]_vars

\* A dispute was just resolved for the seller at the highest fee rate: the order is
\* Cancelled, the treasury holds nothing and the buyer has what it started with.
C19_Witness ==
    /\ last.op = "resolve"
    /\ last.arg = "favor_seller"
    /\ instance.FeeRate = MAX_FEE_RATE
    /\ orders[last.id].status = "Cancelled"
    /\ custody[last.id] = 0
    /\ balances[orders[last.id].token][instance.FeeTreasury] = 0
    /\ balances[orders[last.id].token][orders[last.id].buyer] = InitialBalance[orders[last.id].buyer]
    /\ balances[orders[last.id].token][orders[last.id].seller] = InitialBalance[orders[last.id].seller]

\* C20: cancel, by any caller, and expiry are not enabled on a Locked, PaymentSent
\* or Disputed order; a funded order leaves the funded statuses, and what is held
\* for it leaves custody, only in a step that commits release or resolve on that
\* order; what is held for an order is always nothing or its amount, and an order
\* that is Completed or Cancelled is never released or resolved (again), so each
\* funded order is settled by exactly one such call.
C20_FundedExitsOnlyBySettlement ==
    /\ [](\A id \in DOMAIN orders :
             /\ custody[id] \in {0, orders[id].amount}
             /\ orders[id].status \in Funded =>
                   /\ \A c \in Addresses : ~ENABLED cancel(id, c)
                   /\ ~ENABLED expire(id))
    /\ [][/\ last'.op \in {"cancel", "expire"} => orders[last'.id].status = "Open"
          /\ \A id \in DOMAIN orders :
                /\ (orders[id].status \in Funded /\ orders'[id].status \notin Funded) =>
                      (last'.op \in {"release", "resolve"} /\ last'.id = id)
                /\ custody'[id] < custody[id] =>
                      /\ last'.op \in {"release", "resolve"}
                      /\ last'.id = id
                      /\ orders[id].status \in Funded
                      /\ orders'[id].status \in Terminal
                      /\ custody'[id] = 0]_vars

\* An Open order has just been cancelled by its seller while another order of the
\* same seller is funded on the unpaused contract: the seller's cancel of the
\* funded one is refused.
C20_Witness ==
    /\ last.op = "cancel"
    /\ ~is_paused
    /\ orders[last.id].status = "Cancelled"
    /\ custody[last.id] = 0
    /\ \E j \in DOMAIN orders :
          /\ orders[j].status \in Funded
          /\ orders[j].seller = orders[last.id].seller
          /\ custody[j] = orders[j].amount
          /\ ~ENABLED cancel(j, orders[j].seller)

\* C21: order_count never decreases and is advanced by exactly one in every step
\* that issues an order id; the id issued is the new count and was not stored
\* before, and the orders stored before stay under their ids; so the stored orders
\* are those with ids 1..order_count, each carrying the id it is stored under.
C21_OrderCountIssuesFreshIds ==
    /\ [](has("OrderCount") =>
             /\ DOMAIN orders = 1..instance.OrderCount
             /\ \A id \in DOMAIN orders : orders[id].id = id)
    /\ [][has("OrderCount") =>
             /\ has("OrderCount")'
             /\ instance'.OrderCount >= instance.OrderCount
             /\ DOMAIN orders \subseteq DOMAIN orders'
             /\ (DOMAIN orders' # DOMAIN orders \/ instance'.OrderCount # instance.OrderCount) =>
                   /\ last'.op = "create_order"
                   /\ instance'.OrderCount = instance.OrderCount + 1
                   /\ last'.id = instance'.OrderCount
                   /\ last'.id \notin DOMAIN orders
                   /\ DOMAIN orders' = DOMAIN orders \cup {last'.id}
                   /\ \A id \in DOMAIN orders : orders'[id] = orders[id]]_vars

\* A second id has just been issued while the first order is no longer Open.
C21_Witness ==
    /\ last.op = "create_order"
    /\ last.id = 2
    /\ instance.OrderCount = 2
    /\ orders[1].status # "Open"
    /\ orders[2].id = 2


\* ------------------------------------------------------- AFRI token ledger
LedgerSum(bal) == SumOver(Addresses, bal)

\* The balances after `amount` has left `from` and reached `to`.
Moved(from, to, amount) ==
    [a \in Addresses |-> tok_bal[a] - (IF a = from THEN amount ELSE 0)
                                    + (IF a = to THEN amount ELSE 0)]

TransfersAmount(from, to, amount) ==
    /\ tok_bal' = Moved(from, to, amount)
    /\ LedgerSum(tok_bal') = LedgerSum(tok_bal)

\* C22 as stated: a committed transfer of an amount within the balance of `from`,
\* by either implementation and for every from and to, from = to included, takes
\* the amount from `from`, gives it to `to`, changes no other balance and keeps
\* the sum of the balances.
C22_Original ==
    [][(ledger_vars' # ledger_vars /\ tok_last'.op \in {"AfrIContract::transfer", "contract::transfer"}) =>
         \A i \in {tok_last'.who}, f \in Addresses, t \in Addresses, m \in LedgerAmounts :
            (m <= tok_bal[f] /\ (AfrIContract_transfer(i, f, t, m) \/ contract_transfer(i, f, t, m)))
               => TransfersAmount(f, t, m)]_vars

\* C22, what the code does: AfrIContract::transfer moves the amount for every
\* from and to, from = to included; the transfer of contract.rs moves it between
\* two different accounts, and on from = to it adds the amount to the balance.
C22_TransferMovesAmount ==
    [][(ledger_vars' # ledger_vars /\ tok_last'.op \in {"AfrIContract::transfer", "contract::transfer"}) =>
         \A i \in {tok_last'.who}, f \in Addresses, t \in Addresses, m \in LedgerAmounts :
            /\ (m <= tok_bal[f] /\ AfrIContract_transfer(i, f, t, m)) => TransfersAmount(f, t, m)
            /\ (m <= tok_bal[f] /\ f # t /\ contract_transfer(i, f, t, m)) => TransfersAmount(f, t, m)
            /\ (f = t /\ contract_transfer(i, f, t, m) /\ tok_last'.op = "contract::transfer") =>
                   tok_bal' = [tok_bal EXCEPT ![f] = @ + m]]_vars

\* A transfer of contract.rs invoked by bob was committed last, and alice and bob
\* hold one token each.
C22_Witness ==
    /\ tok_last = LedgerCall("contract::transfer", "bob")
    /\ tok_bal["bob"] = 1
    /\ tok_bal["alice"] = 1
    /\ tok_admin = "carol"

\* C23: a transfer of more than the balance of `from` fails and changes no
\* balance, and so does a burn of more than the balance of `from`, in both
\* implementations and whoever invokes them.
C23_OverdrawFails ==
    /\ [](\A i \in Addresses, f \in Addresses, m \in LedgerAmounts :
             m > tok_bal[f] =>
                /\ AfrIContract_transfer_result(f, m) # "Ok"
                /\ AfrIContract_burn_result(f, m) # "Ok"
                /\ contract_transfer_result(i, f, m) # "Ok"
                /\ contract_burn_result(i, f, m) # "Ok")
    /\ [][ledger_vars' # ledger_vars =>
            \A i \in {tok_last'.who}, f \in Addresses, m \in LedgerAmounts :
               m > tok_bal[f] =>
                  /\ ~AfrIContract_burn(i, f, m)
                  /\ ~contract_burn(i, f, m)
                  /\ \A t \in Addresses :
                        ~AfrIContract_transfer(i, f, t, m) /\ ~contract_transfer(i, f, t, m)]_vars

\* alice holds 1 after a committed transfer; a transfer or a burn of 2 from her is
\* refused for the balance by both implementations.
C23_Witness ==
    /\ tok_last.op = "AfrIContract::transfer"
    /\ tok_bal["alice"] = 1
    /\ AfrIContract_transfer_result("alice", 2) = "InsufficientBalance"
    /\ AfrIContract_burn_result("alice", 2) = "InsufficientBalance"
    /\ contract_transfer_result("alice", "alice", 2) = "InsufficientBalance"
    /\ contract_burn_result(tok_admin, "alice", 2) = "InsufficientBalance"

MintsExactly(to, amount) == tok_bal' = [tok_bal EXCEPT ![to] = @ + amount]

\* C24 as stated: a mint is committed only when the admin invokes it, and it adds
\* exactly the minted amount to the recipient's balance and changes no other.
C24_Original ==
    [][(ledger_vars' # ledger_vars /\ tok_last'.op \in {"AfrIContract::mint", "contract::mint"}) =>
         /\ tok_last'.who = tok_admin
         /\ \E t \in Addresses, m \in LedgerAmounts : MintsExactly(t, m)]_vars

\* C24, what the code does: the mint of contract.rs is committed only when the
\* stored admin invokes it; AfrIContract::mint is committed whenever its `caller`
\* argument names the stored admin, whoever invokes it; a committed mint adds
\* exactly the minted amount to the recipient's balance and changes no other, and
\* a mint that fails changes nothing.
C24_MintNeedsAdminArgument ==
    /\ [](\A i \in Addresses, c \in Addresses, m \in LedgerAmounts :
             /\ c # tok_admin => AfrIContract_mint_result(i, c) # "Ok"
             /\ i # tok_admin => contract_mint_result(i, m) # "Ok"
             /\ (c = tok_admin) => AfrIContract_mint_result(i, c) = "Ok")
    /\ [][(ledger_vars' # ledger_vars /\ tok_last'.op \in {"AfrIContract::mint", "contract::mint"}) =>
            /\ tok_admin # None
            /\ tok_admin' = tok_admin
            /\ tok_last'.op = "contract::mint" => tok_last'.who = tok_admin
            /\ \E t \in Addresses, m \in LedgerAmounts : MintsExactly(t, m)
            /\ \A i \in {tok_last'.who}, c \in Addresses, t \in Addresses, m \in LedgerAmounts :
                  /\ AfrIContract_mint(i, c, t, m) => (c = tok_admin /\ MintsExactly(t, m))
                  /\ contract_mint(i, t, m) => (i = tok_admin /\ m > 0 /\ MintsExactly(t, m))]_vars

\* bob, who is not the admin, invoked AfrIContract::mint last and it was committed:
\* alice is the admin and bob holds two tokens.
C24_Witness ==
    /\ tok_last = LedgerCall("AfrIContract::mint", "bob")
    /\ tok_admin = "alice"
    /\ tok_bal = [a \in Addresses |-> IF a = "bob" THEN 2 ELSE 0]

\* ------------------------------------------------ cache and repositories
\* This step leaves another record of a call than it found (records are compared
\* as texts: what calls return is of many types), and the call is `op`.  A call
\* that leaves the record it found is the call made last, made again with the
\* same answer; the same call on the same tables and store is also made behind
\* every other call that changes neither, and is looked at there.
Recorded == ToString(repo_last') # ToString(repo_last)
Called(op) == Recorded /\ repo_last'.op = op

\* Task t's get_current_rate returns in this step.
GetReturns(t) ==
    /\ tasks[t].pc \in {"get_cache", "get_query", "get_fill"}
    /\ tasks'[t].pc = "idle"

\* The rate of the document a store holds for the pair, if any.
cached_rate(store, pair) ==
    IF store.val[CurrencyPairKey(pair)] = None THEN None
    ELSE from_str("ExchangeRate", store.val[CurrencyPairKey(pair)]).value

\* The cached rate of the pair, if any, is the stored one.
Coherent(pair) == cached_rate(redis, pair) \in {None, query_current_rate(pair)}
CoherentAfter(pair) == cached_rate(redis', pair) \in {None, db_rates'.rate[pair]}

\* C25 as stated: a get_current_rate of a pair whose row was written last by an
\* upsert_rate that has returned, and is not written while the read runs,
\* returns the upserted rate, which is the stored one, and never a rate cached
\* earlier.
C25_Original ==
    [][\A t \in Tasks :
          (/\ GetReturns(t)
           /\ tasks'[t].quiet
           /\ db_rates.written_by[tasks[t].pair] = "upsert_rate") =>
             tasks'[t].ret = query_current_rate(tasks[t].pair)]_vars

\* C25, what the code does: an upsert_rate returns the rate it wrote; when its
\* cache delete obtained a connection it leaves no cached rate for the pair, and
\* when it obtained none it leaves the rate cached before it in place.  A
\* get_current_rate of a pair whose cached rate is absent or the stored one, and
\* whose row is not written while it runs, returns the stored rate and leaves the
\* cache so.  The cache comes to differ from the table only when a row is
\* written or when a read caches a rate it queried before the row was written.
C25_ReadAfterInvalidatingUpsert ==
    /\ [][\A t \in Tasks :
            (tasks[t].pc = "upsert_invalidate" /\ tasks'[t].pc = "idle") =>
               /\ tasks'[t].ret = tasks[t].rate
               /\ tasks'[t].conn = <<TRUE>> => redis'.val[CurrencyPairKey(tasks[t].pair)] = None
               /\ tasks'[t].conn = <<FALSE>> => redis' = redis]_vars
    /\ [][\A t \in Tasks :
            (GetReturns(t) /\ tasks'[t].quiet /\ Coherent(tasks[t].pair)) =>
               /\ tasks'[t].ret = query_current_rate(tasks[t].pair)
               /\ CoherentAfter(tasks[t].pair)]_vars
    /\ [][\A p \in Pairs :
            (Coherent(p) /\ ~CoherentAfter(p)) =>
               \/ db_rates' # db_rates
               \/ \E t \in Tasks : /\ tasks[t].pc = "get_fill"
                                   /\ tasks[t].pair = p
                                   /\ ~tasks[t].quiet]_vars

\* The rate of AFRI/USD was written last by an upsert_rate, which stored 0.90,
\* and the get_current_rate made after it returned 0.85 from the cache.
C25_Witness ==
    /\ tasks["t1"].pc = "idle"
    /\ tasks["t1"].op = "get_current_rate"
    /\ tasks["t1"].pair = <<"AFRI", "USD">>
    /\ tasks["t1"].ret = "0.85"
    /\ tasks["t1"].quiet
    /\ db_rates.written_by[<<"AFRI", "USD">>] = "upsert_rate"
    /\ query_current_rate(<<"AFRI", "USD">>) = "0.90"

\* C26 as stated: in every state the calls reach, find_trustline returns the row
\* stored for the account and asset code, and None only when there is none.
C26_Original ==
    \A a \in TlAccounts, c \in AssetCodes :
       /\ find_trustline_result(a, c, TRUE).ok
       /\ find_trustline_result(a, c, TRUE).value = stored_trustline(a, c)

\* C26, what the code does: find_trustline never returns a row.  It returns None
\* when the flag cached for the account reads false, whatever the table holds;
\* it panics when the account's key holds a text that is no bool; otherwise its
\* SELECT is rejected and it returns the database's error.  It never writes a
\* flag, and create_trustline, update_status, delete, Repository::insert and
\* Repository::update return the database's error and leave the table and the
\* cache as they were: a row leaves the table only through Repository::delete.
C26_FindNeverReturnsARow ==
    /\ [](\A a \in TlAccounts, c \in AssetCodes, g \in BOOLEAN :
            LET r == find_trustline_result(a, c, g)
                text == redis.val[TrustlineKey(a)]
            IN /\ (g /\ text = "false") => (r.ok /\ r.value = NoRow)
               /\ (g /\ text \notin {None, "true", "false"}) => (~r.ok /\ r.value = Panicked)
               /\ (~g \/ text \in {None, "true"}) => (~r.ok /\ r.value = "DatabaseError")
               /\ \A x \in BOOLEAN : find_trustline_store(a, c, g, x) = redis)
    /\ [][(\/ Called("find_trustline") \/ Called("create_trustline")
           \/ Called("update_status") \/ Called("delete")
           \/ Called("Repository::insert") \/ Called("Repository::update")) =>
            /\ redis' = redis
            /\ db_trustlines' = db_trustlines
            /\ repo_last'.op # "find_trustline" => (~repo_last'.ret.ok /\ repo_last'.ret.value = "DatabaseError")]_vars
    /\ [][db_trustlines' # db_trustlines =>
            /\ Called("Repository::delete")
            /\ DOMAIN db_trustlines' \subseteq DOMAIN db_trustlines]_vars

\* The find_trustline made last, for GA1 and AFRI with a connection for each
\* cache call, returned the database's error while the table holds a trustline
\* of GA1 in AFRI.
C26_Witness ==
    /\ repo_last.op = "find_trustline"
    /\ repo_last.arg = <<"GA1", "AFRI">>
    /\ repo_last.conn = <<TRUE, TRUE>>
    /\ ~repo_last.ret.ok
    /\ repo_last.ret.value = "DatabaseError"
    /\ stored_trustline("GA1", "AFRI") # NoRow

\* What each operation of the Cache trait returns without a connection.
Neutral(op, arg) ==
    CASE op = "get" -> Ok(Nothing)
      [] op \in {"set", "set_multiple"} -> Ok(Unit)
      [] op \in {"delete", "exists", "expire"} -> Ok(FALSE)
      [] op = "get_multiple" -> Ok([i \in 1..Len(arg) |-> Nothing])
      [] op \in {"increment", "decrement", "delete_pattern"} -> Ok(0)
      [] op = "ttl" -> Ok(0 - 2)

CacheOps ==
    {"get", "set", "set_multiple", "delete", "exists", "expire", "get_multiple",
     "increment", "decrement", "delete_pattern", "ttl"}

Types == {"String", "bool", "i64", "ExchangeRate"}

\* C27: without a connection every operation of the cache returns its neutral
\* value and no error, and leaves the store as it was; a get_current_rate whose
\* cache calls obtain no connection returns what the query of the table returns.
C27_NoConnectionIsNeutral ==
    /\ [](\A k \in CacheKeys :
             /\ \A T \in Types : /\ cache_get_result(k, T, FALSE) = Ok(Nothing)
                                 /\ cache_get_multiple_result(<<k>>, T, FALSE) = Ok(<<Nothing>>)
             /\ cache_delete_result(k, FALSE) = Ok(FALSE)
             /\ cache_exists_result(k, FALSE) = Ok(FALSE)
             /\ cache_ttl_result(k, FALSE) = Ok(0 - 2)
             /\ \A x \in BOOLEAN : cache_expire_result(k, 60, x, FALSE) = Ok(FALSE)
             /\ \A m \in {1, 2} : /\ cache_increment_result(k, m, FALSE) = Ok(0)
                                  /\ cache_decrement_result(k, m, FALSE) = Ok(0)
                                  /\ cache_increment_store(k, m, FALSE) = redis
                                  /\ cache_decrement_store(k, m, FALSE) = redis
             /\ \A v \in Strings, t \in RawTtls :
                   /\ cache_set_result(k, "String", v, t, FALSE) = Ok(Unit)
                   /\ cache_set_store(k, "String", v, t, FALSE) = redis
                   /\ cache_set_multiple_result(<<<<k, v>>>>, "String", t, FALSE) = Ok(Unit)
                   /\ cache_set_multiple_store(<<<<k, v>>>>, "String", t, FALSE) = redis
             /\ cache_delete_store(k, FALSE) = redis
             /\ \A x \in BOOLEAN : cache_expire_store(k, 60, x, FALSE) = redis)
    /\ [](\A p \in Pairs :
             /\ get_current_rate_result(p, FALSE) = query_current_rate(p)
             /\ get_current_rate_store(p, FALSE, FALSE) = redis)
    /\ [][(Recorded /\ repo_last'.op \in CacheOps /\ repo_last'.conn = <<FALSE>>) =>
            /\ repo_last'.ret = Neutral(repo_last'.op, repo_last'.arg)
            /\ redis' = redis]_vars
    /\ [][\A t \in Tasks :
            (GetReturns(t) /\ tasks'[t].conn \in {<<FALSE>>, <<FALSE, FALSE>>}) =>
               /\ tasks'[t].ret = query_current_rate(tasks[t].pair)
               /\ redis' = redis]_vars

\* The get_current_rate made last obtained no connection and returned the stored
\* rate 0.90 while the cache holds 0.85 for the pair.
C27_Witness ==
    /\ tasks["t1"].pc = "idle"
    /\ tasks["t1"].op = "get_current_rate"
    /\ tasks["t1"].conn = <<FALSE, FALSE>>
    /\ tasks["t1"].ret = "0.90"
    /\ cached_rate(redis, <<"AFRI", "USD">>) = "0.85"

\* ------------------------------------------------------ accept, continued
\* The first rejection condition that holds for an accept the buyer authorised,
\* in the order pause, lookup, status, deadline, own order.
FirstRejection(id, buyer) ==
    IF is_paused THEN "ContractPaused"
    ELSE IF id \notin DOMAIN orders THEN "OrderNotFound"
    ELSE IF orders[id].status # "Open" THEN "InvalidOrderStatus"
    ELSE IF now > orders[id].expires_at THEN "OrderExpired"
    ELSE IF buyer = orders[id].seller THEN "CannotAcceptOwnOrder"
    ELSE "None"

\* C28: an accept the buyer authorised reports the first rejection condition that
\* holds, in the order ContractPaused, OrderNotFound, InvalidOrderStatus,
\* OrderExpired, CannotAcceptOwnOrder, whatever other conditions hold with it; a
\* missing order gives ContractPaused while paused and OrderNotFound otherwise;
\* and a rejected accept changes nothing.
C28_RejectionOrder ==
    /\ [](\A i \in OrderIds, b \in Addresses, y \in BOOLEAN :
             /\ FirstRejection(i, b) # "None" =>
                   accept_order_result(i, b, TRUE, y) = FirstRejection(i, b)
             /\ FirstRejection(i, b) = "None" =>
                   accept_order_result(i, b, TRUE, y) \in {"Ok", "TransferRejected"}
             /\ (i \notin DOMAIN orders) =>
                   accept_order_result(i, b, TRUE, y) =
                      (IF is_paused THEN "ContractPaused" ELSE "OrderNotFound"))
    /\ [][last'.op = "accept_order" =>
            /\ FirstRejection(last'.id, last'.who) = "None"
            /\ \E x \in BOOLEAN, y \in BOOLEAN : accept_order_result(last'.id, last'.who, x, y) = "Ok"]_vars

\* The contract is paused, order 2 does not exist, and order 1 is Locked, past its
\* deadline and asked for by its own seller: every accept answers ContractPaused.
C28_Witness ==
    /\ is_paused
    /\ 2 \notin DOMAIN orders
    /\ 1 \in DOMAIN orders
    /\ orders[1].status = "Locked"
    /\ now > orders[1].expires_at
    /\ accept_order_result(1, orders[1].seller, TRUE, TRUE) = "ContractPaused"
    /\ accept_order_result(2, "bob", TRUE, TRUE) = "ContractPaused"

\* C29: OrderExpired is returned only when now > expires_at; at now = expires_at
\* an accept of an Open order is not rejected as expired and, the other guards
\* met, succeeds; no accept is committed after the deadline.
C29_DeadlineInclusive ==
    /\ [](\A i \in DOMAIN orders, b \in Addresses, x \in BOOLEAN, y \in BOOLEAN :
             /\ accept_order_result(i, b, x, y) = "OrderExpired" => now > orders[i].expires_at
             /\ (now = orders[i].expires_at /\ ~is_paused /\ AcceptGuardsMet(i, b)) =>
                   accept_order_result(i, b, TRUE, TRUE) = "Ok"
             /\ (now > orders[i].expires_at /\ ~is_paused /\ orders[i].status = "Open") =>
                   accept_order_result(i, b, TRUE, y) = "OrderExpired")
    /\ [][last'.op = "accept_order" => now <= orders[last'.id].expires_at]_vars

\* The call committed last is an accept made at the order's deadline.
C29_Witness ==
    /\ last.op = "accept_order"
    /\ now = orders[last.id].expires_at
    /\ orders[last.id].status = "Locked"
    /\ orders[last.id].buyer = last.who

\* How often `id` stands in the order indexes: once for each committed accept of it.
RECURSIVE CountIn(_, _)
CountIn(seq, id) ==
    IF seq = <<>> THEN 0
    ELSE (IF Head(seq) = id THEN 1 ELSE 0) + CountIn(Tail(seq), id)

Accepts(id) == SumOver(Addresses, [a \in Addresses |-> CountIn(user_orders[a], id)])

\* C30: an order is accepted at most once: an accept is committed only on an
\* order that has no buyer and was never accepted, it pulls the order's amount
\* from the seller once, the recorded buyer never changes afterwards, and every
\* later accept of the order, by any principal, is rejected.
C30_AcceptedAtMostOnce ==
    /\ [](\A i \in DOMAIN orders :
             /\ Accepts(i) = (IF orders[i].buyer # None THEN 1 ELSE 0)
             /\ orders[i].buyer # None =>
                   /\ orders[i].status # "Open"
                   /\ \A b \in Addresses, x \in BOOLEAN, y \in BOOLEAN :
                         accept_order_result(i, b, x, y) # "Ok")
    /\ [][(orders' # orders \/ user_orders' # user_orders) =>
            \A i \in DOMAIN orders :
               orders[i].buyer # None =>
                  /\ orders'[i].buyer = orders[i].buyer
                  /\ Accepts(i)' = Accepts(i)]_vars
    /\ [][last'.op = "accept_order" =>
            /\ orders[last'.id].buyer = None
            /\ Accepts(last'.id) = 0
            /\ balances'[orders[last'.id].token][orders[last'.id].seller] =
                  balances[orders[last'.id].token][orders[last'.id].seller] - orders[last'.id].amount
            /\ custody'[last'.id] = orders[last'.id].amount]_vars

\* Order 1 was accepted by bob and has moved on to PaymentSent; an accept by
\* carol is rejected and the order stands once in bob's index and in no other.
C30_Witness ==
    /\ 1 \in DOMAIN orders
    /\ orders[1].buyer = "bob"
    /\ orders[1].status = "PaymentSent"
    /\ accept_order_result(1, "carol", TRUE, TRUE) = "InvalidOrderStatus"
    /\ user_orders["bob"] = <<1>>
    /\ user_orders["carol"] = <<>>

\* `old` is an initial segment of `new`.
Extends(new, old) ==
    /\ Len(new) >= Len(old)
    /\ SubSeq(new, 1, Len(old)) = old

\* C31: an order id stands in principal p's index exactly when p is the order's
\* recorded buyer, and then once; every index only grows at its end, by the id of
\* an accept that succeeded for that principal; an accept that fails adds nothing.
C31_IndexMirrorsBuyer ==
    /\ [](\A p \in Addresses :
             /\ \A k \in 1..Len(user_orders[p]) : user_orders[p][k] \in DOMAIN orders
             /\ \A i \in DOMAIN orders :
                   CountIn(user_orders[p], i) = (IF orders[i].buyer = p THEN 1 ELSE 0))
    /\ [][\A p \in Addresses : Extends(user_orders'[p], user_orders[p])]_vars
    /\ [][user_orders' # user_orders =>
            /\ last'.op = "accept_order"
            /\ \E x \in BOOLEAN, y \in BOOLEAN :
                  accept_order_result(last'.id, last'.who, x, y) = "Ok"
            /\ user_orders' = [user_orders EXCEPT ![last'.who] = Append(@, last'.id)]]_vars

\* bob accepted order 2 and then order 1: his index lists them in that order, the
\* other indexes are empty, and a further accept of order 1 by carol is refused.
C31_Witness ==
    /\ DOMAIN orders = {1, 2}
    /\ orders[1].buyer = "bob"
    /\ orders[2].buyer = "bob"
    /\ user_orders["bob"] = <<2, 1>>
    /\ user_orders["carol"] = <<>>
    /\ accept_order_result(1, "carol", TRUE, TRUE) # "Ok"

\* C32: a committed accept of order i by buyer b writes buyer and status of order i,
\* b's index and the balances of the seller and of the contract in the order's
\* token, and nothing else: the other fields of the order, every other order, every
\* other index and balance, the governance fields and the clock are as before.
C32_AcceptFrame ==
    [][last'.op = "accept_order" =>
         LET i == last'.id
             b == last'.who
         IN /\ i \in DOMAIN orders
            /\ DOMAIN orders' = DOMAIN orders
            /\ \A j \in DOMAIN orders \ {i} : orders'[j] = orders[j]
            /\ orders'[i] = [orders[i] EXCEPT !.buyer = b, !.status = "Locked"]
            /\ \A f \in DOMAIN orders[i] \ {"buyer", "status"} : orders'[i][f] = orders[i][f]
            /\ \A p \in Addresses \ {b} : user_orders'[p] = user_orders[p]
            /\ \A t \in Tokens, a \in Accounts :
                  (t # orders[i].token \/ a \notin {orders[i].seller, Contract}) =>
                     balances'[t][a] = balances[t][a]
            /\ instance' = instance
            /\ now' = now
            /\ ext' = ext]_vars

\* Order 2 has just been accepted by bob, after the clock moved, on a contract that
\* holds a second order which carol accepted earlier and is past Locked.
C32_Witness ==
    /\ last.op = "accept_order"
    /\ last.id = 2
    /\ last.who = "bob"
    /\ DOMAIN orders = {1, 2}
    /\ orders[2].status = "Locked"
    /\ orders[2].created_at < now
    /\ orders[1].buyer = "carol"
    /\ orders[1].status = "PaymentSent"
    /\ user_orders["carol"] = <<1>>

\* ------------------------------------------------ token ledger, continued
NonNegative(bal) == \A a \in Addresses : bal[a] >= 0

\* C33 as stated: no balance of the ledger is ever negative.
C33_Original == NonNegative(tok_bal)

\* C33, what the code does: the entry points of contract.rs refuse amounts that
\* are not positive and never make a balance negative; AfrIContract::burn never
\* does either; a balance becomes negative only through AfrIContract::mint or
\* AfrIContract::transfer called with a negative amount, which both accept.
C33_NegativeOnlyThroughUncheckedAmounts ==
    /\ [](\A i \in Addresses, f \in Addresses, m \in LedgerAmounts :
             m <= 0 =>
                /\ contract_mint_result(i, m) = "InvalidAmount"
                /\ contract_burn_result(i, f, m) = "InvalidAmount"
                /\ contract_transfer_result(i, f, m) = "InvalidAmount"
                /\ (m <= get_balance(f)) => AfrIContract_transfer_result(f, m) = "Ok")
    /\ [][(ledger_vars' # ledger_vars /\ NonNegative(tok_bal) /\ ~NonNegative(tok_bal')) =>
            /\ tok_last'.op \in {"AfrIContract::mint", "AfrIContract::transfer"}
            /\ \A i \in {tok_last'.who}, c \in Addresses, f \in Addresses, t \in Addresses, m \in LedgerAmounts :
                  /\ AfrIContract_mint(i, c, t, m) => m < 0
                  /\ AfrIContract_transfer(i, f, t, m) => m < 0]_vars

\* AfrIContract::transfer was committed last and left bob with a balance of -1
\* and alice with one token.
C33_Witness ==
    /\ tok_last.op = "AfrIContract::transfer"
    /\ tok_bal = [a \in Addresses |-> IF a = "bob" THEN 0 - 1 ELSE IF a = "alice" THEN 1 ELSE 0]

\* C34 as stated: once set, the admin is never changed.
C34_Original == [][tok_admin # None => tok_admin' = tok_admin]_vars

\* C34, what the code does: the stored admin is changed by init and by nothing
\* else; every init, the first or a later one, invoked by anyone, stores its
\* argument; and the admin that gates mint is the one stored by the latest init.
C34_LatestInitSetsAdmin ==
    /\ [][tok_admin' # tok_admin =>
            /\ tok_last'.op = "AfrIContract::init"
            /\ tok_admin' \in Addresses]_vars
    /\ [][(ledger_vars' # ledger_vars /\ tok_last'.op = "AfrIContract::init") =>
            /\ tok_bal' = tok_bal
            /\ \A i \in Addresses, c \in Addresses :
                  (AfrIContract_mint_result(i, c)' = "Ok") <=> (c = tok_admin')]_vars
    /\ [](\A i \in Addresses, c \in Addresses, m \in LedgerAmounts :
             /\ AfrIContract_mint_result(i, c) = "Ok" => c = tok_admin
             /\ contract_mint_result(i, m) = "Ok" => i = tok_admin)

\* bob invoked init last, on a ledger on which tokens had already been minted
\* under an earlier admin: the admin is bob, and a mint naming alice is refused.
C34_Witness ==
    /\ tok_last = LedgerCall("AfrIContract::init", "bob")
    /\ tok_admin = "bob"
    /\ tok_bal["alice"] = 2
    /\ AfrIContract_mint_result("alice", "alice") = "OnlyAdminCanMint"
    /\ AfrIContract_mint_result("bob", "bob") = "Ok"

\* ------------------------------------------------- Paystack request loop
\* The value make_request ended with is parsed data or an error.
Returned ==
    \/ pay.result = Ok("data")
    \/ /\ ~pay.result.ok
       /\ pay.result.value.kind \in {"PaymentProvider", "RateLimit"}

\* C35: make_request sends the request at most max_retries + 1 times, whatever
\* the answers, and not at all when the request it built does not clone; a call
\* that is done has returned parsed data or an error; and every call that was
\* started is done eventually.
C35_BoundedSendsAndTermination ==
    /\ [](Len(pay.answers) <= pay.max_retries + 1)
    /\ [](pay.pc = "sending" => /\ Len(pay.answers) = pay.attempt
                                /\ pay.attempt <= pay.max_retries
                                /\ pay.request = "Ok")
    /\ [](pay.request # "Ok" => /\ pay.pc = "done"
                                /\ pay.answers = <<>>
                                /\ pay.slept = <<>>)
    /\ [](pay.pc = "done" => Returned)
    /\ ((pay.pc = "sending") ~> (pay.pc = "done"))

\* A call with max_retries = MaxRetries is done after MaxRetries + 1 sends, each of
\* which came back with a transport error, one of them after a 429.
C35_Witness ==
    /\ pay.pc = "done"
    /\ pay.max_retries = MaxRetries
    /\ pay.request = "Ok"
    /\ Len(pay.answers) = MaxRetries + 1
    /\ pay.answers[1].status = 429
    /\ pay.answers[Len(pay.answers)] = TransportError
    /\ pay.result = exhausted

\* The answer handled by the step, when the step is a send.
Sent == Len(pay'.answers) = Len(pay.answers) + 1
Answer == pay'.answers[Len(pay'.answers)]
Retryable(answer) ==
    \/ answer.kind = "error"
    \/ answer.status = 429
    \/ answer.status \in 500..599

\* C36: after a send the loop goes round again only when the send came back with
\* a transport error, a 429 or a 5xx and retries are left; a 2xx ends the call at
\* once, with the data when the body says status true and with an error that is
\* not retryable when it says status false or does not parse; any other status
\* ends it with an error that is not retryable; a 429 on the last attempt ends it
\* with RateLimit; a 5xx or a transport error on the last attempt ends it with an
\* error marked retryable.  A call whose request does not clone ends before any
\* send, with an error that is not retryable.
C36_RetryOnlyOnTransient ==
    /\ [][Sent =>
         /\ (pay'.pc = "sending") <=> (Retryable(Answer) /\ pay.attempt < pay.max_retries)
         /\ pay'.pc = "sending" => pay'.attempt = pay.attempt + 1
         /\ pay'.pc = "done" =>
               /\ pay'.attempt = pay.attempt
               /\ Answer = Response(200, "status_true") => pay'.result = Ok("data")
               /\ Answer \in {Response(200, "status_false"), Response(200, "unparsable")} =>
                     /\ ~pay'.result.ok
                     /\ pay'.result.value.kind = "PaymentProvider"
                     /\ ~pay'.result.value.is_retryable
               /\ (Answer.kind = "response" /\ ~Retryable(Answer) /\ Answer.status \notin 200..299) =>
                     /\ ~pay'.result.ok
                     /\ pay'.result.value.kind = "PaymentProvider"
                     /\ ~pay'.result.value.is_retryable
               /\ (Answer.kind = "response" /\ Answer.status = 429) =>
                     pay'.result = Err(RateLimitError)
               /\ (Answer.kind = "error" \/ Answer.status \in 500..599) =>
                     /\ ~pay'.result.ok
                     /\ pay'.result.value.kind = "PaymentProvider"
                     /\ pay'.result.value.is_retryable]_vars
    /\ [][(pay' # pay /\ ~Sent) =>
            /\ pay'.answers = <<>>
            /\ pay'.slept = <<>>
            /\ (pay'.pc = "sending") <=> (pay'.request = "Ok")
            /\ pay'.pc = "done" =>
                  pay'.result = Err(PaymentProviderError("Failed to clone request", FALSE))]_vars

\* A call was retried after a 500 and after a transport error and then ended on a
\* 404, without a further send, with an error that is not retryable.
C36_Witness ==
    /\ pay.pc = "done"
    /\ pay.max_retries = MaxRetries
    /\ Len(pay.answers) = 3
    /\ pay.answers[1] = Response(500, "text")
    /\ pay.answers[2] = TransportError
    /\ pay.answers[3] = Response(404, "text")
    /\ pay.slept = <<1, 2>>
    /\ pay.result = Err(PaymentProviderError("HTTP", FALSE))

\* ------------------------------------------------------ webhook repository
\* A step that is the call `op`: it leaves the record of `op`, and the record or
\* the table is not what it was.
HookCalled(op) ==
    /\ hook_last'.op = op
    /\ \/ hook_last'.op # hook_last.op
       \/ hook_last'.id # hook_last.id
       \/ hook_last'.ret # hook_last.ret
       \/ hooks' # hooks

\* The rows a step keeps, and a step that rewrites row i through the Repository trait.
Kept == DOMAIN hooks \cap DOMAIN hooks'
Rewritten(i) == HookCalled("Repository::update") /\ hook_last'.id = i

\* A row whose status goes with its count: of 'pending' and 'failed' it is
\* 'pending' exactly below 5.
Counted(row) ==
    /\ row.status = "pending" => row.retry_count < RETRY_LIMIT
    /\ row.status = "failed" => row.retry_count >= RETRY_LIMIT

\* C37: log_event stores a 'pending' event with no failure recorded; a committed
\* record_failure raises the event's retry_count by exactly one, leaves it
\* 'pending' while the new count is below 5 and 'failed' from 5 on, and touches
\* no other event; get_pending_events returns only pending events with
\* retry_count below 5, oldest first.  Short of a rewrite of the row through
\* Repository::update, retry_count changes only by record_failure, an event that
\* is pending exactly below 5 stays so, and an event given up at 5 recorded
\* failures is never pending again, so never handed out again.
C37_FiveFailuresGiveUp ==
    /\ [](\A l \in 1..MaxEvents : \A ret \in get_pending_events_result(l) :
             /\ Len(ret) <= l
             /\ \A k \in 1..Len(ret) :
                   /\ ret[k] \in DOMAIN hooks
                   /\ hooks[ret[k]].status = "pending"
                   /\ hooks[ret[k]].retry_count < RETRY_LIMIT
                   /\ k > 1 => /\ ret[k - 1] # ret[k]
                               /\ hooks[ret[k - 1]].created_at <= hooks[ret[k]].created_at)
    /\ [][HookCalled("log_event") =>
            /\ hook_last'.id \notin DOMAIN hooks
            /\ hooks'[hook_last'.id].status = "pending"
            /\ hooks'[hook_last'.id].retry_count = 0
            /\ \A j \in DOMAIN hooks : j \in DOMAIN hooks' /\ hooks'[j] = hooks[j]]_vars
    /\ [][HookCalled("record_failure") =>
            LET i == hook_last'.id
            IN /\ DOMAIN hooks' = DOMAIN hooks
               /\ hooks'[i].retry_count = hooks[i].retry_count + 1
               /\ hooks'[i].status = (IF hooks'[i].retry_count >= RETRY_LIMIT THEN "failed" ELSE "pending")
               /\ \A j \in DOMAIN hooks \ {i} : hooks'[j] = hooks[j]]_vars
    /\ [][\A i \in Kept :
            \/ Rewritten(i)
            \/ /\ hooks'[i].retry_count >= hooks[i].retry_count
               /\ hooks'[i].retry_count # hooks[i].retry_count =>
                     HookCalled("record_failure") /\ hook_last'.id = i
               /\ Counted(hooks[i]) => Counted(hooks'[i])
               /\ (hooks[i].retry_count >= RETRY_LIMIT /\ hooks[i].status # "pending") =>
                     hooks'[i].status # "pending"]_vars

\* Event 1 has failed five times and is 'failed'; event 2 came after it, has
\* failed four times, was never marked processed, is still 'pending' and is the
\* only event get_pending_events hands out.
C37_Witness ==
    /\ DOMAIN hooks = {1, 2}
    /\ hooks[1].retry_count = 5
    /\ hooks[1].status = "failed"
    /\ hooks[1].created_at = 1
    /\ hooks[1].processed_at = None
    /\ hooks[2].retry_count = 4
    /\ hooks[2].status = "pending"
    /\ hooks[2].created_at = 2
    /\ hooks[2].processed_at = None
    /\ hook_last.op = "get_pending_events"
    /\ hook_last.ret = <<2>>

\* C38 as stated: no mark_processed and no record_failure puts a completed event
\* back to 'pending'.
C38_Original ==
    [][(HookCalled("mark_processed") \/ HookCalled("record_failure")) =>
          \A i \in Kept : hooks[i].status = "completed" => hooks'[i].status # "pending"]_vars

\* C38, what the code does: mark_processed sets 'completed' and processed_at and
\* a further mark_processed keeps them; a completed event is not handed out; short
\* of a rewrite of the row through Repository::update, it leaves 'completed' only
\* through record_failure, which sets it back to 'pending' while its new
\* retry_count is below 5 and to 'failed' otherwise, keeping processed_at.
C38_CompletedUntilNextFailure ==
    /\ [][HookCalled("mark_processed") =>
            /\ DOMAIN hooks' = DOMAIN hooks
            /\ hooks'[hook_last'.id].status = "completed"
            /\ hooks'[hook_last'.id].processed_at # None
            /\ hooks'[hook_last'.id].retry_count = hooks[hook_last'.id].retry_count]_vars
    /\ [][\A i \in Kept :
            (hooks[i].status = "completed" /\ hooks'[i].status # "completed") =>
               \/ Rewritten(i)
               \/ /\ HookCalled("record_failure")
                  /\ hook_last'.id = i
                  /\ hooks'[i].status =
                        (IF hooks[i].retry_count + 1 >= RETRY_LIMIT THEN "failed" ELSE "pending")
                  /\ hooks'[i].processed_at = hooks[i].processed_at]_vars
    /\ [](\A i \in DOMAIN hooks :
             hooks[i].status = "completed" =>
                \A l \in 1..MaxEvents : \A ret \in get_pending_events_result(l) :
                   \A k \in 1..Len(ret) : ret[k] # i)

\* Event 1 was logged and marked processed, then a failure was recorded for it:
\* it is 'pending' with its processed_at set, and get_pending_events hands it out.
C38_Witness ==
    /\ 1 \in DOMAIN hooks
    /\ hooks[1].created_at = 1
    /\ hooks[1].processed_at # None
    /\ hooks[1].status = "pending"
    /\ hooks[1].retry_count = 1
    /\ hooks[1].error_message = "error"
    /\ hook_last.op = "get_pending_events"
    /\ hook_last.ret = <<1>>

\* ------------------------------------------ rate repository, concurrent
\* C39 as stated: a get_current_rate that starts after every upsert_rate on the
\* pair has returned, and during which none begins, returns the rate upserted last.
C39_Original ==
    [][\A t \in Tasks :
          (GetReturns(t) /\ tasks'[t].quiet /\ query_current_rate(tasks[t].pair) # None) =>
             tasks'[t].ret = query_current_rate(tasks[t].pair)]_vars

\* C39, what the code does: upsert_rate's delete leaves the pair's key empty; a
\* get_current_rate returns the cached rate on a hit and the queried rate on a
\* miss, so one that runs with no upsert_rate under way returns the upserted rate
\* whenever it misses; the cache comes to differ from the table only when
\* upsert_rate writes the row over a cached rate, until its delete, or when a
\* get_current_rate writes into the cache a rate it queried before a later row
\* write; that entry stays until it expires or the next upsert_rate deletes it,
\* and every get_current_rate started meanwhile returns it.
C39_StaleOnlyThroughLateFill ==
    /\ [][\A t \in Tasks :
            /\ (tasks[t].pc = "upsert_invalidate" /\ tasks'[t].pc = "idle") =>
                  redis'.val[CurrencyPairKey(tasks[t].pair)] = None
            /\ (tasks[t].pc = "get_cache" /\ tasks'[t].pc = "idle") =>
                  tasks'[t].ret = cached_rate(redis, tasks[t].pair)
            /\ (GetReturns(t) /\ tasks[t].pc # "get_cache" /\ tasks'[t].quiet) =>
                  tasks'[t].ret = query_current_rate(tasks[t].pair)
            /\ (GetReturns(t) /\ Coherent(tasks[t].pair)) =>
                  tasks'[t].ret \in {cached_rate(redis, tasks[t].pair), tasks[t].rate,
                                     query_current_rate(tasks[t].pair)}]_vars
    /\ [][(Coherent(ConcPair) /\ ~CoherentAfter(ConcPair)) =>
            \/ db_rates' # db_rates
            \/ \E t \in Tasks :
                  /\ tasks[t].pc = "get_fill"
                  /\ tasks'[t].pc = "idle"
                  /\ ~tasks[t].quiet
                  /\ tasks[t].rate # query_current_rate(ConcPair)
                  /\ cached_rate(redis', ConcPair) = tasks[t].rate]_vars

\* No call is under way, the table holds 0.90 and the cache 0.85: t1's
\* get_current_rate, which ran while an upsert_rate did, returned 0.85 and so did
\* t2's, which started after that upsert_rate had returned.
C39_Witness ==
    /\ \A t \in Tasks : tasks[t].pc = "idle"
    /\ query_current_rate(ConcPair) = "0.90"
    /\ cached_rate(redis, ConcPair) = "0.85"
    /\ tasks["t1"].ret = "0.85"
    /\ ~tasks["t1"].quiet
    /\ tasks["t2"].ret = "0.85"
    /\ tasks["t2"].quiet
    /\ tasks["t3"].ret = "0.90"
====
